---- MODULE Spec2Model ----
(***************************************************************************)
(* Asset identity, deduplication and memory accounting of RustyEngine:     *)
(* the path resolver (core/assets/cache/path.rs), the generic dedup store   *)
(* (core/assets/cache.rs) and the AssetManager facade                       *)
(* (core/assets/manager/*.rs) with the audio engine it forwards to.         *)
(*                                                                         *)
(* A path string is a sequence of tokens: a separator "/" or "\\", or a     *)
(* segment name ("." and ".." included).  A parsed path is the sequence of  *)
(* its std::path components; a component is the chunk of tokens between two *)
(* "/" separators (one name, unless a backslash was left inside it).        *)
(***************************************************************************)
EXTENDS Integers, Sequences, FiniteSets, TLC

VARIABLES
    \* ---- path resolver harness (SpecPath)
    pRoot,      \* asset_root handed to compute_asset_path_info (token string)
    pInput,     \* input handed to compute_asset_path_info (token string)
    pFs,        \* the filesystem consulted by std::fs::canonicalize
    pInfo,      \* the AssetPathInfo returned for (pRoot, pInput) under pFs
    \* ---- dedup store harness (SpecStore)
    store,      \* an AssetStore: [by_id, id_by_key]
    sLast,      \* the last AssetStore call: [op, id]
    \* ---- the asset manager and the audio engine (Spec)
    mgr,        \* the AssetManager and the ImageId / AssetId counters
    audio,      \* the AudioSystem and the SoundId counter
    pend,       \* the load that created the newest entry and its unload, while no
                \* other load changed the manager
    \* ---- one handle counter and its concurrent callers (SpecIds)
    idNext,     \* the AtomicUsize / AtomicU32 behind the handles
    idPc,       \* each caller's position inside new() / alloc()
    idGot,      \* each caller's local: the value its fetch_add returned
    idSeen,     \* each caller's history: the handles returned before its call began
    idIssued,   \* history: the values fetch_add returned, in modification order
    \* ---- the glyph packing loop of load_font_with_charset (SpecPack)
    pen,        \* pen_x, pen_y, row_height and the glyph rectangles placed so far
    penFed,     \* history: the metrics fontdue returned, glyph after glyph
    \* ---- the spritesheet slicer (SpecSlice)
    slConfig,   \* the SpritesheetConfig handed to the slicer
    slSheet,    \* the decoded sheet image: [width, height]
    slPositions,\* what calculate_sprite_positions(&config) returned, once called
    slAtlas     \* what the slicer returned for the sheet, once called

pathVars == <<pRoot, pInput, pFs, pInfo>>

storeVars == <<store, sLast>>

mgrVars == <<mgr, audio, pend>>

idVars == <<idNext, idPc, idGot, idSeen, idIssued>>

packVars == <<pen, penFed>>

sliceVars == <<slConfig, slSheet, slPositions, slAtlas>>

vars == <<pRoot, pInput, pFs, pInfo, store, sLast, mgr, audio, pend,
          idNext, idPc, idGot, idSeen, idIssued, pen, penFed,
          slConfig, slSheet, slPositions, slAtlas>>

----------------------------------------------------------------------------
(* Generic sequence helpers *)

Last(s) == s[Len(s)]

Front(s) == SubSeq(s, 1, Len(s) - 1)

IsPrefix(p, s) == Len(p) <= Len(s) /\ SubSeq(s, 1, Len(p)) = p

\* Option<T>: tested with IsSome, never compared across payload types.
None == [some |-> FALSE, val |-> 0]

Some(v) == [some |-> TRUE, val |-> v]

IsSome(o) == o.some

\* std::collections::HashMap as a function with a finite domain.
EmptyMap == <<>>

MapPut(m, k, v) == [x \in (DOMAIN m) \cup {k} |-> IF x = k THEN v ELSE m[x]]

MapDel(m, k) == [x \in (DOMAIN m) \ {k} |-> m[x]]

MapGet(m, k) == IF k \in DOMAIN m THEN Some(m[k]) ELSE None

RECURSIVE SumOver(_, _)
SumOver(m, ids) ==
    IF ids = {} THEN 0
    ELSE LET i == CHOOSE x \in ids : TRUE IN m[i] + SumOver(m, ids \ {i})

----------------------------------------------------------------------------
(* std::path as used by path.rs *)

RootDir == <<"/">>

CurDir == <<".">>

ParentDir == <<"..">>

\* Path::components(): split on "/", skip empty chunks and "." chunks (a
\* leading "." of a relative path is kept as CurDir), a leading "/" is RootDir.
RECURSIVE Chunks(_, _, _)
Chunks(s, i, cur) ==
    IF i > Len(s) THEN (IF cur = <<>> THEN <<>> ELSE <<cur>>)
    ELSE IF s[i] = "/" THEN (IF cur = <<>> THEN <<>> ELSE <<cur>>) \o Chunks(s, i + 1, <<>>)
    ELSE Chunks(s, i + 1, Append(cur, s[i]))

components(s) ==
    LET hasRoot == Len(s) > 0 /\ s[1] = "/"
        raw == Chunks(s, 1, <<>>)
        keep(i) == raw[i] # CurDir \/ (i = 1 /\ ~hasRoot)
        idx == {i \in 1..Len(raw) : keep(i)}
        RECURSIVE Pick(_)
        Pick(i) == IF i > Len(raw) THEN <<>>
                   ELSE (IF i \in idx THEN <<raw[i]>> ELSE <<>>) \o Pick(i + 1)
    IN (IF hasRoot THEN <<RootDir>> ELSE <<>>) \o Pick(1)

\* Path::is_absolute() on unix: the path has a root.
is_absolute(p) == Len(p) > 0 /\ p[1] = RootDir

\* PathBuf::push(component): an absolute argument replaces the whole path.
push(p, c) == IF c = RootDir THEN <<RootDir>> ELSE Append(p, c)

\* PathBuf::pop(): Path::parent() is Some for a last component that is Normal,
\* CurDir or ParentDir, and None for an empty path or a bare root.
can_pop(p) == Len(p) > 0 /\ Last(p) # RootDir

\* Path::strip_prefix(base): component-wise prefix removal, None on mismatch.
strip_prefix(p, base) == IF IsPrefix(base, p) THEN Some(SubSeq(p, Len(base) + 1, Len(p))) ELSE None

\* The string of a parsed path (Path::to_string_lossy): components joined by "/".
RECURSIVE path_string(_)
path_string(p) ==
    IF p = <<>> THEN <<>>
    ELSE IF p[1] = RootDir THEN <<"/">> \o path_string(Tail(p))
    ELSE p[1] \o (IF Len(p) > 1 THEN <<"/">> ELSE <<>>) \o path_string(Tail(p))

----------------------------------------------------------------------------
(* The filesystem seen by std::fs::canonicalize: directories, files and the  *)
(* working directory, each a parsed absolute path.  No symbolic links.      *)

\* Nothing but "/" exists: every canonicalization of a longer path fails.
FsBare == [dirs |-> {<<RootDir>>}, files |-> {}, cwd |-> <<RootDir>>]

FsGame ==
    [dirs |-> {<<RootDir>>, <<RootDir, <<"g">>>>, <<RootDir, <<"g">>, <<"d">>>>},
     files |-> {<<RootDir, <<"g">>, <<"a">>>>, <<RootDir, <<"g">>, <<"b">>>>,
                <<RootDir, <<"g">>, <<"f">>>>, <<RootDir, <<"g">>, <<"s">>>>,
                <<RootDir, <<"x">>>>},
     cwd |-> <<RootDir, <<"g">>>>]

\* The filesystem of the resolver harness: /g, /g/g, /g/a inside and /a outside.
FsPath ==
    [dirs |-> {<<RootDir>>, <<RootDir, <<"g">>>>, <<RootDir, <<"g">>, <<"g">>>>},
     files |-> {<<RootDir, <<"g">>, <<"a">>>>, <<RootDir, <<"a">>>>},
     cwd |-> <<RootDir, <<"g">>>>]

\* std::fs::canonicalize(path): the absolute path with every "." and ".."
\* resolved against the filesystem; it fails (None) when a component does
\* not exist or a non-directory is traversed.  ".." at "/" stays at "/".
RECURSIVE canon_walk(_, _, _, _)
canon_walk(fs, cur, p, i) ==
    IF i > Len(p) THEN Some(cur)
    ELSE IF cur \notin fs.dirs THEN None
    ELSE IF p[i] = RootDir THEN canon_walk(fs, <<RootDir>>, p, i + 1)
    ELSE IF p[i] = CurDir THEN canon_walk(fs, cur, p, i + 1)
    ELSE IF p[i] = ParentDir
        THEN canon_walk(fs, IF Len(cur) > 1 THEN Front(cur) ELSE cur, p, i + 1)
    ELSE IF Append(cur, p[i]) \in fs.dirs \cup fs.files
        THEN canon_walk(fs, Append(cur, p[i]), p, i + 1)
    ELSE None

\* The empty path does not exist (ENOENT).
canonicalize(fs, p) == IF p = <<>> THEN None ELSE canon_walk(fs, fs.cwd, p, 1)

----------------------------------------------------------------------------
(* core/assets/cache/path.rs *)

\* normalize_separators (cfg(unix)): every backslash becomes a slash.
normalize_separators(s) == [i \in 1..Len(s) |-> IF s[i] = "\\" THEN "/" ELSE s[i]]

\* lexical_normalize: CurDir dropped; ParentDir pops when PathBuf::pop succeeds
\* and is pushed otherwise; every other component is pushed.
RECURSIVE lexical_fold(_, _, _)
lexical_fold(normalized, comps, i) ==
    IF i > Len(comps) THEN normalized
    ELSE IF comps[i] = CurDir THEN lexical_fold(normalized, comps, i + 1)
    ELSE IF comps[i] = ParentDir
        THEN lexical_fold(IF can_pop(normalized) THEN Front(normalized)
                          ELSE push(normalized, ParentDir), comps, i + 1)
    ELSE lexical_fold(push(normalized, comps[i]), comps, i + 1)

\* A normalization that collapses nothing.
lexical_normalize_keep(s) == components(s)

lexical_normalize(s) == lexical_fold(<<>>, components(s), 1)

\* to_slash_string: the path's string with every backslash replaced by "/".
to_slash_string(p) == normalize_separators(path_string(p))

\* The `while key.starts_with("./")` loop: trim_start_matches("./").
RECURSIVE trim_dot_slash(_)
trim_dot_slash(k) ==
    IF Len(k) >= 2 /\ k[1] = "." /\ k[2] = "/" THEN trim_dot_slash(SubSeq(k, 3, Len(k)))
    ELSE k

ReasonAbsInput == "absolute input path is not portable"

ReasonAbsOutside == "absolute path outside asset_root"

ReasonRelEscapes == "relative path escapes asset_root"

\* Result::unwrap_or_else(|_| fallback) on an optional value.
unwrap_or(o, fallback) == IF IsSome(o) THEN o.val ELSE fallback

\* compute_asset_path_info is written in stages, each taking the values the
\* function has bound so far.  Last stage: the key's trimming and the record.
path_info_record(relative_for_key, resolved_canon, is_portable, reason) ==
    [key |-> trim_dot_slash(to_slash_string(relative_for_key)),
     io_path |-> resolved_canon,
     is_portable |-> is_portable,
     reason |-> reason]

\* The four-way branch on the two strip_prefix results rel1 and rel2.
path_info_branch(rel1, rel2, resolved_canon, input_was_absolute) ==
    IF IsSome(rel1)
    THEN path_info_record(rel1.val, resolved_canon, ~input_was_absolute,
                          IF input_was_absolute THEN Some(ReasonAbsInput) ELSE None)
    ELSE IF IsSome(rel2)
    THEN path_info_record(rel2.val, resolved_canon, ~input_was_absolute,
                          IF input_was_absolute THEN Some(ReasonAbsInput) ELSE None)
    ELSE IF input_was_absolute
    THEN path_info_record(resolved_canon, resolved_canon, FALSE, Some(ReasonAbsOutside))
    ELSE path_info_record(resolved_canon, resolved_canon, FALSE, Some(ReasonRelEscapes))

\* resolved_canon.strip_prefix(&root_canon) and resolved_lex.strip_prefix(&root).
path_info_strip(root, root_canon, resolved_lex, resolved_canon, input_was_absolute) ==
    path_info_branch(strip_prefix(resolved_canon, root_canon), strip_prefix(resolved_lex, root),
                     resolved_canon, input_was_absolute)

\* root_canon and resolved_canon: canonicalize, or the lexical form when it fails.
path_info_canon(fs, root, resolved, resolved_lex, input_was_absolute) ==
    path_info_strip(root, unwrap_or(canonicalize(fs, root), root), resolved_lex,
                    unwrap_or(canonicalize(fs, components(resolved)), resolved_lex),
                    input_was_absolute)

\* resolved_lex = lexical_normalize(&resolved).
path_info_lex(fs, root, resolved, input_was_absolute) ==
    path_info_canon(fs, root, resolved, lexical_normalize(resolved), input_was_absolute)

\* root.join(&input) for a relative input, as a string.
join_string(root, input) ==
    path_string(root)
        \o (IF root # <<>> /\ root # <<RootDir>> /\ input # <<>> THEN <<"/">> ELSE <<>>)
        \o input

\* resolved: the input itself when absolute, root.join(&input) otherwise.
path_info_resolve(fs, root, input, input_was_absolute) ==
    path_info_lex(fs, root, IF input_was_absolute THEN input ELSE join_string(root, input),
                  input_was_absolute)

path_info_normalized(fs, root, input) ==
    path_info_resolve(fs, root, input, is_absolute(components(input)))

\* compute_asset_path_info(asset_root, input) under filesystem fs.
compute_asset_path_info(fs, asset_root, rawInput) ==
    path_info_normalized(fs, lexical_normalize(normalize_separators(asset_root)),
                         normalize_separators(rawInput))

normalize_asset_key(fs, asset_root, input) == compute_asset_path_info(fs, asset_root, input).key

----------------------------------------------------------------------------
(* SpecPath: compute_asset_path_info applied to every root of PathRoots and  *)
(* every input of at most MaxSegs segments, with and without a filesystem    *)
(* behind canonicalize.                                                      *)

MaxSegs == 4

PathNames == {".", "..", "g", "a"}

PathSeps == {"/", "\\"}

PathRoots == {<<"/", "g">>, <<"/">>, <<"g">>, <<".">>}

PathFilesystems == {FsBare, FsPath}

IsSep(t) == t \in PathSeps

SegCount(s) == Cardinality({i \in 1..Len(s) : ~IsSep(s[i])})

PathInit ==
    /\ pRoot \in PathRoots
    /\ pFs \in PathFilesystems
    /\ pInput \in {<<>>, <<"/">>}
    /\ pInfo = compute_asset_path_info(pFs, pRoot, pInput)

\* The caller's input grows by one segment and is resolved again.
PathExtend(sep, name) ==
    /\ SegCount(pInput) < MaxSegs
    /\ pInput' = pInput \o (IF pInput = <<>> \/ IsSep(Last(pInput)) THEN <<name>> ELSE <<sep, name>>)
    /\ pInfo' = compute_asset_path_info(pFs, pRoot, pInput')
    /\ UNCHANGED <<pRoot, pFs, storeVars, mgrVars, idVars, packVars, sliceVars>>

PathNext == \E sep \in PathSeps, name \in PathNames : PathExtend(sep, name)

----------------------------------------------------------------------------
(* core/assets/cache.rs: AssetStore<Id, Key, Asset> *)

\* AssetStore::new
AssetStore_new == [by_id |-> EmptyMap, id_by_key |-> EmptyMap]

\* AssetStore::get_existing_id
\* A lookup that never finds the key.
get_existing_id_miss(st, key) == None

get_existing_id(st, key) == MapGet(st.id_by_key, key)

\* AssetStore::insert_keyed
insert_keyed(st, id, key, asset) ==
    [by_id |-> MapPut(st.by_id, id, [asset |-> asset, key |-> Some(key)]),
     id_by_key |-> MapPut(st.id_by_key, key, id)]

\* AssetStore::insert_unkeyed
insert_unkeyed(st, id, asset) ==
    [by_id |-> MapPut(st.by_id, id, [asset |-> asset, key |-> None]),
     id_by_key |-> st.id_by_key]

\* AssetStore::remove: the store after the call (the entry returned is
\* MapGet(st.by_id, id)).
remove(st, id) ==
    IF id \notin DOMAIN st.by_id THEN st
    ELSE [by_id |-> MapDel(st.by_id, id),
          id_by_key |-> IF IsSome(st.by_id[id].key)
                        THEN MapDel(st.id_by_key, st.by_id[id].key.val)
                        ELSE st.id_by_key]

\* A clear that empties by_id and leaves the key map.
clear_keep_keys(st) == [by_id |-> EmptyMap, id_by_key |-> st.id_by_key]

\* AssetStore::clear
clear(st) == [by_id |-> EmptyMap, id_by_key |-> EmptyMap]

\* AssetStore::len
len(st) == Cardinality(DOMAIN st.by_id)

\* AssetStore::contains_id
contains_id(st, id) == id \in DOMAIN st.by_id

----------------------------------------------------------------------------
(* SpecStore: an AssetStore driven by arbitrary calls with handles of       *)
(* 1..StoreIds and keys of StoreKeys.                                        *)

StoreIds == 3

StoreKeys == {"k1", "k2"}

StoreAsset == "asset"

StoreInit ==
    /\ store = AssetStore_new
    /\ sLast = [op |-> "new", id |-> 0]

StoreInsertKeyed(id, key) ==
    /\ store' = insert_keyed(store, id, key, StoreAsset)
    /\ sLast' = [op |-> "insert_keyed", id |-> id]
    /\ UNCHANGED <<pathVars, mgrVars, idVars, packVars, sliceVars>>

StoreInsertUnkeyed(id) ==
    /\ store' = insert_unkeyed(store, id, StoreAsset)
    /\ sLast' = [op |-> "insert_unkeyed", id |-> id]
    /\ UNCHANGED <<pathVars, mgrVars, idVars, packVars, sliceVars>>

StoreRemove(id) ==
    /\ store' = remove(store, id)
    /\ sLast' = [op |-> "remove", id |-> id]
    /\ UNCHANGED <<pathVars, mgrVars, idVars, packVars, sliceVars>>

StoreClear ==
    /\ store' = clear(store)
    /\ sLast' = [op |-> "clear", id |-> 0]
    /\ UNCHANGED <<pathVars, mgrVars, idVars, packVars, sliceVars>>

StoreNext ==
    \/ \E id \in 1..StoreIds, key \in StoreKeys : StoreInsertKeyed(id, key)
    \/ \E id \in 1..StoreIds : StoreInsertUnkeyed(id)
    \/ \E id \in 1..StoreIds : StoreRemove(id)
    \/ StoreClear

----------------------------------------------------------------------------
(* Results and errors (core/assets/error.rs, audio/error.rs) *)

\* The payload of an error: MemoryExceeded { current, limit } and
\* InvalidAssetPath { input, asset_root, reason }; the rest carry nothing the
\* model reads.
ErrInfo(kind, current, limit, input, asset_root, reason) ==
    [kind |-> kind, current |-> current, limit |-> limit,
     input |-> input, asset_root |-> asset_root, reason |-> reason]

NoErr == ErrInfo("", 0, 0, <<>>, <<>>, "")

\* Ok(id) / Ok(()) : val is the handle (0 for unit).
Ok(v) == [ok |-> TRUE, val |-> v, flag |-> FALSE, ids |-> <<>>, err |-> NoErr]

\* Ok(bool)
OkBool(b) == [ok |-> TRUE, val |-> 0, flag |-> b, ids |-> <<>>, err |-> NoErr]

\* Ok(SpritesheetAtlas { image, .. }) and Ok(Vec<ImageId>)
OkIds(image, ids) == [ok |-> TRUE, val |-> image, flag |-> FALSE, ids |-> ids, err |-> NoErr]

Err(kind) ==
    [ok |-> FALSE, val |-> 0, flag |-> FALSE, ids |-> <<>>,
     err |-> ErrInfo(kind, 0, 0, <<>>, <<>>, "")]

MemoryExceeded(current, limit) ==
    [ok |-> FALSE, val |-> 0, flag |-> FALSE, ids |-> <<>>,
     err |-> ErrInfo("MemoryExceeded", current, limit, <<>>, <<>>, "")]

InvalidAssetPath(input, asset_root, reason) ==
    [ok |-> FALSE, val |-> 0, flag |-> FALSE, ids |-> <<>>,
     err |-> ErrInfo("InvalidAssetPath", 0, 0, input, asset_root, reason)]

IsErr(r, kind) == ~r.ok /\ r.err.kind = kind

\* The width of usize in the model.
UsizeBits == 24

UsizeMax == 2^UsizeBits - 1

\* usize::checked_add
checked_add(a, b) == IF a + b > UsizeMax THEN None ELSE Some(a + b)

\* usize::saturating_sub
saturating_sub(a, b) == IF a >= b THEN a - b ELSE 0

----------------------------------------------------------------------------
(* The world outside the manager: files on disk and what the decoders make   *)
(* of them.  /g is the asset root; /g/a and /g/b are images (1x1 and 2x1),   *)
(* /g/f is a font, /g/s a sound, /x an image outside the root.               *)

AssetRoot == <<"/", "g">>

File(names) == <<RootDir>> \o [i \in 1..Len(names) |-> <<names[i]>>]

\* image::open(path).to_rgba8().dimensions(): [width, height], or None when
\* the file is missing or is not an image.
image_open(path) ==
    IF path = File(<<"g", "a">>) THEN Some([width |-> 1, height |-> 1])
    ELSE IF path = File(<<"g", "b">>) THEN Some([width |-> 2, height |-> 1])
    ELSE IF path = File(<<"x">>) THEN Some([width |-> 1, height |-> 1])
    ELSE None

\* File length in bytes (std::fs::read(path).len(), std::fs::metadata(path).len()).
file_len(path) ==
    IF path = File(<<"g", "f">>) THEN 2
    ELSE IF path = File(<<"g", "s">>) THEN 5
    ELSE 3

\* std::fs::read(path): the number of bytes read, or None (missing, or a directory).
fs_read(path) == IF path \in FsGame.files THEN Some(file_len(path)) ELSE None

\* std::fs::metadata(path).map(|m| m.len() as usize).unwrap_or(0)
fs_metadata_len(path) == IF path \in FsGame.files \cup FsGame.dirs THEN file_len(path) ELSE 0

\* fontdue::Font::from_bytes succeeds on the bytes of a font file only.
font_from_bytes_ok(path) == path = File(<<"g", "f">>)

\* The audio engine decodes sound files only.
audio_decodes(path) == path = File(<<"g", "s">>)

----------------------------------------------------------------------------
(* core/assets/manager/mod.rs *)

\* AssetManager::with_limit_and_root(max_bytes, AssetRoot), with the process-wide
\* ImageId and AssetId counters at their current values.
with_limit_and_root(max_bytes) ==
    [images |-> AssetStore_new,
     fonts |-> AssetStore_new,
     sounds |-> AssetStore_new,
     path_policy |-> "AllowAndWarn",
     max_memory_bytes |-> max_bytes,
     current_memory_bytes |-> 0,
     next_image_id |-> 0,
     next_asset_id |-> 0]

\* A call's outcome: the manager afterwards and the value returned.
Out(m, ret) == [m |-> m, ret |-> ret]

\* The paths the manager is called with.
ManagerPaths ==
    {<<"a">>, <<".", "\\", "a">>, <<"/", "g", "/", "a">>,
     <<"b">>, <<"f">>, <<"s">>, <<"..", "/", "x">>, <<"n">>}

\* compute_asset_path_info(asset_root, input) of each of these paths, which
\* depends on the path and the files only.
PathInfos == [input \in ManagerPaths |-> compute_asset_path_info(FsGame, AssetRoot, input)]

\* AssetManager::compute_path_info
compute_path_info(m, input) ==
    IF input \in ManagerPaths THEN PathInfos[input]
    ELSE compute_asset_path_info(FsGame, AssetRoot, input)

ReasonNotPortable == "path is not portable"

\* A policy check that lets every path through.
enforce_path_policy_allow_all(m, input, info) == Ok(0)

\* AssetManager::enforce_path_policy
enforce_path_policy(m, input, info) ==
    IF info.is_portable THEN Ok(0)
    ELSE IF m.path_policy = "AllowSilent" THEN Ok(0)
    ELSE IF m.path_policy = "AllowAndWarn" THEN Ok(0)
    ELSE InvalidAssetPath(input, AssetRoot, unwrap_or(info.reason, ReasonNotPortable))

\* A capacity check that forgets the bytes already in use.
ensure_capacity_ignoring_current(m, additional_bytes) ==
    IF additional_bytes > m.max_memory_bytes
    THEN MemoryExceeded(m.current_memory_bytes, m.max_memory_bytes)
    ELSE Ok(0)

\* Mutant: the addition wraps around instead of being checked.
ensure_capacity_wrapping(m, additional_bytes) ==
    IF (m.current_memory_bytes + additional_bytes) % (UsizeMax + 1) > m.max_memory_bytes
    THEN MemoryExceeded(m.current_memory_bytes, m.max_memory_bytes)
    ELSE Ok(0)

\* AssetManager::ensure_capacity_for
ensure_capacity_for(m, additional_bytes) ==
    LET new_total == checked_add(m.current_memory_bytes, additional_bytes)
    IN IF ~IsSome(new_total) THEN MemoryExceeded(m.current_memory_bytes, m.max_memory_bytes)
       ELSE IF new_total.val > m.max_memory_bytes
            THEN MemoryExceeded(m.current_memory_bytes, m.max_memory_bytes)
       ELSE Ok(0)

----------------------------------------------------------------------------
(* core/assets/manager/images.rs *)

ImageAsset(width, height) == [width |-> width, height |-> height, len |-> width * height * 4]

\* An admission that stores the image before it checks the capacity.
load_image_from_asset_insert_first(m, asset) ==
    IF ~ensure_capacity_for(m, asset.len).ok
    THEN Out([m EXCEPT !.images = insert_unkeyed(@, m.next_image_id, asset),
                       !.next_image_id = @ + 1],
             ensure_capacity_for(m, asset.len))
    ELSE Out([m EXCEPT !.images = insert_unkeyed(@, m.next_image_id, asset),
                       !.current_memory_bytes = @ + asset.len,
                       !.next_image_id = @ + 1],
             Ok(m.next_image_id))

\* AssetManager::load_image_from_asset
load_image_from_asset(m, asset) ==
    LET image_size == asset.len
        cap == ensure_capacity_for(m, image_size)
        id == m.next_image_id
    IN IF ~cap.ok THEN Out(m, cap)
       ELSE Out([m EXCEPT !.images = insert_unkeyed(@, id, asset),
                          !.current_memory_bytes = @ + image_size,
                          !.next_image_id = @ + 1],
                Ok(id))

\* Mutant: the image is decoded and the ledger consulted before the lookup.
load_image_ledger_first(m, info) ==
    LET key == [path |-> info.key]
        existing == get_existing_id(m.images, key)
        dims == image_open(info.io_path)
        image == ImageAsset(dims.val.width, dims.val.height)
        cap == ensure_capacity_for(m, image.len)
    IN IF ~IsSome(dims) THEN Out(m, Err("Image"))
       ELSE IF ~cap.ok THEN Out(m, cap)
       ELSE IF IsSome(existing) THEN Out(m, Ok(existing.val))
       ELSE Out([m EXCEPT !.images = insert_keyed(@, m.next_image_id, key, image),
                          !.current_memory_bytes = @ + image.len,
                          !.next_image_id = @ + 1],
                Ok(m.next_image_id))

\* AssetManager::load_image_from_path_info
load_image_from_path_info(m, info) ==
    LET key == [path |-> info.key]
        existing == get_existing_id(m.images, key)
        dims == image_open(info.io_path)
        image == ImageAsset(dims.val.width, dims.val.height)
        image_size == image.len
        cap == ensure_capacity_for(m, image_size)
        id == m.next_image_id
    IN IF IsSome(existing) THEN Out(m, Ok(existing.val))
       ELSE IF ~IsSome(dims) THEN Out(m, Err("Image"))
       ELSE IF ~cap.ok THEN Out(m, cap)
       ELSE Out([m EXCEPT !.images = insert_keyed(@, id, key, image),
                          !.current_memory_bytes = @ + image_size,
                          !.next_image_id = @ + 1],
                Ok(id))

\* Mutant: the cache is consulted before the path policy.
load_image_dedup_first(m, path, info) ==
    IF IsSome(get_existing_id(m.images, [path |-> info.key]))
    THEN Out(m, Ok(get_existing_id(m.images, [path |-> info.key]).val))
    ELSE IF ~enforce_path_policy(m, path, info).ok THEN Out(m, enforce_path_policy(m, path, info))
    ELSE load_image_from_path_info(m, info)

\* AssetManager::load_image, once info = self.compute_path_info(path) is bound.
load_image_with_info(m, path, info) ==
    LET pol == enforce_path_policy(m, path, info)
    IN IF ~pol.ok THEN Out(m, pol) ELSE load_image_from_path_info(m, info)

\* AssetManager::load_image
load_image(m, path) == load_image_with_info(m, path, compute_path_info(m, path))

\* AssetManager::image_count
image_count(m) == len(m.images)

\* An unload that removes the entry and keeps its bytes in the ledger.
unload_image_keep_bytes(m, id) ==
    IF id \in DOMAIN m.images.by_id THEN Out([m EXCEPT !.images = remove(@, id)], OkBool(TRUE))
    ELSE Out(m, OkBool(FALSE))

\* An unload that releases the bytes it is given credit for even when the
\* handle is unknown: it reports true and zeroes the ledger.
unload_image_unknown_counts(m, id) ==
    IF id \in DOMAIN m.images.by_id
    THEN Out([m EXCEPT !.images = remove(@, id),
                       !.current_memory_bytes = saturating_sub(@, m.images.by_id[id].asset.len)],
             OkBool(TRUE))
    ELSE Out([m EXCEPT !.current_memory_bytes = 0], OkBool(TRUE))

\* AssetManager::unload_image
unload_image(m, id) ==
    LET entry == MapGet(m.images.by_id, id)
    IN IF IsSome(entry)
       THEN Out([m EXCEPT !.images = remove(@, id),
                          !.current_memory_bytes = saturating_sub(@, entry.val.asset.len)],
                OkBool(TRUE))
       ELSE Out(m, OkBool(FALSE))

\* Sum of data.len() over a store's entries.
StoreBytes(st) == SumOver([i \in DOMAIN st.by_id |-> st.by_id[i].asset.len], DOMAIN st.by_id)

\* AssetManager::unload_all_images
unload_all_images(m) ==
    LET freed == StoreBytes(m.images)
    IN [m EXCEPT !.images = clear(@),
                 !.current_memory_bytes = saturating_sub(@, freed)]

----------------------------------------------------------------------------
(* core/assets/manager/fonts.rs *)

ATLAS_SIZE == 1024

Space == 32

QuestionMark == 63

CharsetAscii == [tag |-> "Ascii", chars |-> <<>>]

CharsetLatin1 == [tag |-> "Latin1", chars |-> <<>>]

CharsetCustom(chars) == [tag |-> "Custom", chars |-> chars]

\* sort_unstable() followed by dedup(): the distinct elements in ascending order.
RECURSIVE SortedSeq(_)
SortedSeq(S) ==
    IF S = {} THEN <<>>
    ELSE LET lo == CHOOSE x \in S : \A y \in S : x <= y IN <<lo>> \o SortedSeq(S \ {lo})

sort_dedup(v) == SortedSeq({v[i] : i \in 1..Len(v)})

Range(a, b) == [i \in 1..(b - a + 1) |-> a + i - 1]

\* The charset part of the cache key.  DefaultHasher is taken to be
\* collision-free: the hash of a list is the list.
charset_hash(charset) ==
    IF charset.tag = "Ascii" THEN [tag |-> "fixed", h |-> <<1>>]
    ELSE IF charset.tag = "Latin1" THEN [tag |-> "fixed", h |-> <<2>>]
    ELSE [tag |-> "hashed", h |-> sort_dedup(charset.chars)]

\* FontKey::new(path, font_size, charset_hash)
FontKey_new(path, font_size, hash) == [path |-> path, size_bits |-> font_size, charset_hash |-> hash]

\* The characters rasterized into the atlas, in packing order.
charset_chars(charset) ==
    IF charset.tag = "Ascii" THEN Range(32, 126)
    ELSE IF charset.tag = "Latin1" THEN Range(32, 255)
    ELSE LET v == charset.chars
             v1 == IF \E i \in 1..Len(v) : v[i] = Space THEN v ELSE Append(v, Space)
             v2 == IF \E i \in 1..Len(v1) : v1[i] = QuestionMark THEN v1 ELSE Append(v1, QuestionMark)
         IN sort_dedup(v2)

\* fontdue's Font::rasterize(ch, px) metrics for the font /g/f: the space has
\* no bitmap; every other glyph is px/2 wide and px high.
rasterize(ch, px) ==
    IF ch = Space THEN [width |-> 0, height |-> 0, advance_width |-> (px + 3) \div 4]
    ELSE [width |-> px \div 2, height |-> px, advance_width |-> px \div 2]

\* One iteration of the packing loop of load_font_with_charset on the pen
\* state st = [ok, pen_x, pen_y, row_height, rects] for a glyph whose
\* rasterization returned metrics; ok = FALSE is the OutOfMemory return.
pack_metrics(st, ch, metrics) ==
    LET wrap == st.pen_x + metrics.width >= ATLAS_SIZE
        x == IF wrap THEN 0 ELSE st.pen_x
        y == IF wrap THEN st.pen_y + st.row_height + 1 ELSE st.pen_y
        rh == IF wrap THEN 0 ELSE st.row_height
    IN IF metrics.width = 0 \/ metrics.height = 0
       THEN [st EXCEPT !.pen_x = @ + metrics.advance_width]
       ELSE IF y + metrics.height >= ATLAS_SIZE THEN [st EXCEPT !.ok = FALSE]
       ELSE [ok |-> TRUE,
             pen_x |-> x + metrics.width + 1,
             pen_y |-> y,
             row_height |-> IF rh >= metrics.height THEN rh ELSE metrics.height,
             rects |-> Append(st.rects, [ch |-> ch, x |-> x, y |-> y,
                                         width |-> metrics.width, height |-> metrics.height])]

\* The iteration for the character ch of the font /g/f at size px.
pack_glyph(st, ch, px) == pack_metrics(st, ch, rasterize(ch, px))

\* let dst = (pen_x + x) + (pen_y + y) * ATLAS_SIZE: the atlas_pixels index
\* written for pixel (x, y) of the glyph placed at rect.
dst_index(rect, x, y) == (rect.x + x) + (rect.y + y) * ATLAS_SIZE

\* The pen before the first iteration.
PenStart == [ok |-> TRUE, pen_x |-> 0, pen_y |-> 0, row_height |-> 0, rects |-> <<>>]

\* The iterations for chars[lo..hi] in order, stopping at the OutOfMemory
\* return; split in halves to keep the evaluation shallow.
RECURSIVE pack_range(_, _, _, _, _)
pack_range(st, chars, px, lo, hi) ==
    IF lo > hi THEN st
    ELSE IF lo = hi THEN pack_glyph(st, chars[lo], px)
    ELSE LET mid == (lo + hi) \div 2
             left == pack_range(st, chars, px, lo, mid)
         IN IF ~left.ok THEN left ELSE pack_range(left, chars, px, mid + 1, hi)

\* The packing loop of load_font_with_charset: [ok, rects, ...].
pack_glyphs(chars, px) ==
    pack_range(PenStart, chars, px, 1, Len(chars))

\* f32::is_finite() && font_size > 0.0 on a size [finite, px].
font_size_valid(font_size) == font_size.finite /\ font_size.px > 0

\* AssetManager::load_font_with_charset, with info = self.compute_path_info(path).
load_font_with_info(m, path, font_size, charset, info) ==
    LET pol == enforce_path_policy(m, path, info)
        key == FontKey_new(info.key, font_size, charset_hash(charset))
        existing == get_existing_id(m.fonts, key)
        data == fs_read(info.io_path)
        font_data_size == data.val
        cap == ensure_capacity_for(m, font_data_size)
        packed == pack_glyphs(charset_chars(charset), font_size.px)
        atlas == load_image_from_asset(m, ImageAsset(ATLAS_SIZE, ATLAS_SIZE))
        font_asset == [len |-> font_data_size, atlas |-> atlas.ret.val, font_size |-> font_size]
        id == atlas.m.next_asset_id
    IN IF ~font_size_valid(font_size) THEN Out(m, Err("InvalidFontSize"))
       ELSE IF ~pol.ok THEN Out(m, pol)
       ELSE IF IsSome(existing) THEN Out(m, Ok(existing.val))
       ELSE IF ~IsSome(data) THEN Out(m, Err("Io"))
       ELSE IF ~cap.ok THEN Out(m, cap)
       ELSE IF ~font_from_bytes_ok(info.io_path) THEN Out(m, Err("InvalidFont"))
       ELSE IF ~packed.ok THEN Out(m, Err("OutOfMemory"))
       ELSE IF ~atlas.ret.ok THEN Out(atlas.m, atlas.ret)
       ELSE Out([atlas.m EXCEPT !.fonts = insert_keyed(@, id, key, font_asset),
                                !.current_memory_bytes = @ + font_data_size,
                                !.next_asset_id = @ + 1],
                Ok(id))

\* AssetManager::load_font_with_charset
load_font_with_charset(m, path, font_size, charset) ==
    load_font_with_info(m, path, font_size, charset, compute_path_info(m, path))

\* AssetManager::font_count
font_count(m) == len(m.fonts)

\* An unload that removes the entry and keeps its bytes in the ledger.
unload_font_keep_bytes(m, id) ==
    IF id \in DOMAIN m.fonts.by_id THEN Out([m EXCEPT !.fonts = remove(@, id)], OkBool(TRUE))
    ELSE Out(m, OkBool(FALSE))

\* AssetManager::unload_font
unload_font(m, id) ==
    LET entry == MapGet(m.fonts.by_id, id)
    IN IF IsSome(entry)
       THEN Out([m EXCEPT !.fonts = remove(@, id),
                          !.current_memory_bytes = saturating_sub(@, entry.val.asset.len)],
                OkBool(TRUE))
       ELSE Out(m, OkBool(FALSE))

\* AssetManager::unload_all_fonts
unload_all_fonts(m) ==
    LET freed == StoreBytes(m.fonts)
    IN [m EXCEPT !.fonts = clear(@),
                 !.current_memory_bytes = saturating_sub(@, freed)]

----------------------------------------------------------------------------
(* audio/rodio_backend.rs, audio/system.rs, audio/sound.rs: the audio engine *)
(* is [loaded, next_sound_id]: the ids in RodioBackend::sounds and the       *)
(* process-wide SoundId counter.                                             *)

AudioSystem_new == [loaded |-> {}, next_sound_id |-> 0]

AOut(au, ret) == [au |-> au, ret |-> ret]

\* RodioBackend::choose_strategy: Auto reads the file's metadata.
choose_strategy_ok(path, strategy) ==
    strategy # "Auto" \/ path \in FsGame.files \cup FsGame.dirs

\* AudioSystem::load_with_strategy -> RodioBackend::load: the id is taken from
\* the counter once the strategy is chosen, before the file is opened and decoded.
audio_load_with_strategy(au, path, strategy) ==
    IF ~choose_strategy_ok(path, strategy) THEN AOut(au, Err("Metadata"))
    ELSE IF path \notin FsGame.files
        THEN AOut([au EXCEPT !.next_sound_id = @ + 1], Err("FileOpen"))
    ELSE IF ~audio_decodes(path)
        THEN AOut([au EXCEPT !.next_sound_id = @ + 1], Err("Decode"))
    ELSE AOut([loaded |-> au.loaded \cup {au.next_sound_id},
               next_sound_id |-> au.next_sound_id + 1],
              Ok(au.next_sound_id))

\* AudioSystem::unload -> RodioBackend::unload
audio_unload(au, id) ==
    IF id \notin au.loaded THEN AOut(au, Err("SoundNotLoaded"))
    ELSE AOut([au EXCEPT !.loaded = @ \ {id}], Ok(0))

\* AudioSystem::unload_all -> RodioBackend::unload_all
audio_unload_all(au) == [au EXCEPT !.loaded = {}]

----------------------------------------------------------------------------
(* core/assets/manager/sounds.rs *)

SOut(m, au, ret) == [m |-> m, au |-> au, ret |-> ret]

\* AudioError::Backend(err.to_string()): the asset error as its message; the
\* message is told apart by the error it was made from.
Backend(e) ==
    [ok |-> FALSE, val |-> 0, flag |-> FALSE, ids |-> <<>>,
     err |-> ErrInfo("Backend", 0, 0, <<>>, <<>>, e.err.kind)]

\* Mutant: the audio engine loads the file before the budget is checked.
load_sound_engine_first(m, au, path, strategy, info) ==
    LET pol == enforce_path_policy(m, path, info)
        key == [path |-> info.key, strategy |-> strategy]
        existing == get_existing_id(m.sounds, key)
        estimated_bytes == fs_metadata_len(info.io_path)
        cap == ensure_capacity_for(m, estimated_bytes)
        loaded == audio_load_with_strategy(au, info.io_path, strategy)
    IN IF ~pol.ok THEN SOut(m, au, Backend(pol))
       ELSE IF IsSome(existing) THEN SOut(m, au, Ok(existing.val))
       ELSE IF ~loaded.ret.ok THEN SOut(m, loaded.au, loaded.ret)
       ELSE IF ~cap.ok THEN SOut(m, loaded.au, Backend(cap))
       ELSE SOut([m EXCEPT !.sounds = insert_keyed(@, loaded.ret.val, key,
                                                   [estimated_bytes |-> estimated_bytes]),
                           !.current_memory_bytes = @ + estimated_bytes],
                 loaded.au, Ok(loaded.ret.val))

\* AssetManager::load_sound_with_strategy, with info = self.compute_path_info(path).
load_sound_with_info(m, au, path, strategy, info) ==
    LET pol == enforce_path_policy(m, path, info)
        key == [path |-> info.key, strategy |-> strategy]
        existing == get_existing_id(m.sounds, key)
        estimated_bytes == fs_metadata_len(info.io_path)
        cap == ensure_capacity_for(m, estimated_bytes)
        loaded == audio_load_with_strategy(au, info.io_path, strategy)
    IN IF ~pol.ok THEN SOut(m, au, Backend(pol))
       ELSE IF IsSome(existing) THEN SOut(m, au, Ok(existing.val))
       ELSE IF ~cap.ok THEN SOut(m, au, Backend(cap))
       ELSE IF ~loaded.ret.ok THEN SOut(m, loaded.au, loaded.ret)
       ELSE SOut([m EXCEPT !.sounds = insert_keyed(@, loaded.ret.val, key,
                                                   [estimated_bytes |-> estimated_bytes]),
                           !.current_memory_bytes = @ + estimated_bytes],
                 loaded.au, Ok(loaded.ret.val))

\* AssetManager::load_sound_with_strategy
load_sound_with_strategy(m, au, path, strategy) ==
    load_sound_with_info(m, au, path, strategy, compute_path_info(m, path))

\* AssetManager::sound_count
sound_count(m) == len(m.sounds)

\* AssetManager::unload_sound
unload_sound(m, au, id) ==
    LET entry == MapGet(m.sounds.by_id, id)
        m1 == [m EXCEPT !.sounds = remove(@, id),
                        !.current_memory_bytes = saturating_sub(@, entry.val.asset.estimated_bytes)]
        un == audio_unload(au, id)
    IN IF ~IsSome(entry) THEN SOut(m, au, OkBool(FALSE))
       ELSE IF ~un.ret.ok THEN SOut(m1, un.au, un.ret)
       ELSE SOut(m1, un.au, OkBool(TRUE))

\* AssetManager::unload_all_sounds: unload_sound on every tracked id, errors dropped.
RECURSIVE unload_sounds_each(_, _, _)
unload_sounds_each(m, au, ids) ==
    IF ids = {} THEN SOut(m, au, Ok(0))
    ELSE LET id == CHOOSE x \in ids : TRUE
             r == unload_sound(m, au, id)
         IN unload_sounds_each(r.m, r.au, ids \ {id})

unload_all_sounds(m, au) == unload_sounds_each(m, au, DOMAIN m.sounds.by_id)

----------------------------------------------------------------------------
(* core/assets/manager/bulk.rs *)

\* AssetManager::unload_images: unload_image on each id of the slice, in order.
RECURSIVE unload_images(_, _)
unload_images(m, ids) ==
    IF ids = <<>> THEN m ELSE unload_images(unload_image(m, Head(ids)).m, Tail(ids))

\* AssetManager::unload_fonts: unload_font on each id of the slice, in order.
RECURSIVE unload_fonts(_, _)
unload_fonts(m, ids) ==
    IF ids = <<>> THEN m ELSE unload_fonts(unload_font(m, Head(ids)).m, Tail(ids))

\* AssetManager::unload_all
unload_all(m, au) ==
    LET s1 == unload_all_sounds(m, au)
        m2 == unload_all_fonts(unload_all_images(s1.m))
    IN SOut([m2 EXCEPT !.current_memory_bytes = 0], s1.au, Ok(0))

----------------------------------------------------------------------------
(* core/assets/manager/metrics.rs *)

memory_usage(m) == m.current_memory_bytes

memory_limit(m) == m.max_memory_bytes

images_memory_usage_bytes(m) == StoreBytes(m.images)

fonts_memory_usage_bytes(m) == StoreBytes(m.fonts)

sounds_memory_usage_bytes(m) ==
    SumOver([i \in DOMAIN m.sounds.by_id |-> m.sounds.by_id[i].asset.estimated_bytes],
            DOMAIN m.sounds.by_id)

----------------------------------------------------------------------------
(* core/assets/spritesheet.rs, core/assets/manager/spritesheet.rs *)

\* The width of u32 in the model.
U32Bits == 16

U32Max == 2^U32Bits - 1

\* u32 arithmetic: checked (None on overflow), saturating, wrapping.
checked_mul_u32(a, b) == IF a * b > U32Max THEN None ELSE Some(a * b)

checked_add_u32(a, b) == IF a + b > U32Max THEN None ELSE Some(a + b)

wrap_u32(x) == x % (U32Max + 1)

SpritesheetConfig(columns, rows, sprite_width, sprite_height, order, spacing, margin) ==
    [columns |-> columns, rows |-> rows, sprite_width |-> sprite_width,
     sprite_height |-> sprite_height, order |-> order, spacing |-> spacing, margin |-> margin]

SpriteOrders ==
    {"LeftToRightTopToBottom", "RightToLeftTopToBottom", "LeftToRightBottomToTop",
     "Zigzag", "TopToBottomLeftToRight"}

\* Mutant: every traversal stays in row 0.
sprite_position_row0(config, k) == <<k % config.columns, 0>>

\* calculate_sprite_positions: the k-th (col, row) pushed, k = 0 .. columns*rows - 1.
sprite_position(config, k) ==
    LET c == config.columns
        r == config.rows
    IN IF config.order = "LeftToRightTopToBottom" THEN <<k % c, k \div c>>
       ELSE IF config.order = "RightToLeftTopToBottom" THEN <<c - 1 - (k % c), k \div c>>
       ELSE IF config.order = "LeftToRightBottomToTop" THEN <<k % c, r - 1 - (k \div c)>>
       ELSE IF config.order = "Zigzag"
            THEN <<IF (k \div c) % 2 = 0 THEN k % c ELSE c - 1 - (k % c), k \div c>>
       ELSE <<k \div r, k % r>>

calculate_sprite_positions(config) ==
    [k \in 1..(config.columns * config.rows) |-> sprite_position(config, k - 1)]

\* The SpriteRegion of one (col, row) position.
sprite_region(config, pos) ==
    [x |-> wrap_u32(config.margin + pos[1] * (config.sprite_width + config.spacing)),
     y |-> wrap_u32(config.margin + pos[2] * (config.sprite_height + config.spacing)),
     width |-> config.sprite_width,
     height |-> config.sprite_height]

\* Mutant: the gaps between the cells are left out of the expected extent.
expected_extent_no_gaps(margin, cells, size, spacing) ==
    LET m2 == checked_mul_u32(margin, 2)
        cs == checked_mul_u32(cells, size)
    IN IF IsSome(m2) /\ IsSome(cs) THEN checked_add_u32(m2.val, cs.val) ELSE None

\* margin + index * (size + spacing) and that plus size, in plain u32
\* arithmetic: TRUE when one of the four operations leaves the u32 range (a
\* build with overflow checks panics there, one without wraps).
offset_overflows(margin, index, size, spacing) ==
    \/ size + spacing > U32Max
    \/ index * wrap_u32(size + spacing) > U32Max
    \/ margin + wrap_u32(index * wrap_u32(size + spacing)) > U32Max
    \/ wrap_u32(margin + wrap_u32(index * wrap_u32(size + spacing))) + size > U32Max

\* The arithmetic for the region of one (col, row) position overflows.
region_overflows(config, pos) ==
    \/ offset_overflows(config.margin, pos[1], config.sprite_width, config.spacing)
    \/ offset_overflows(config.margin, pos[2], config.sprite_height, config.spacing)

\* margin*2 + cells*size + (cells-1)*spacing with checked u32 arithmetic.
expected_extent(margin, cells, size, spacing) ==
    LET m2 == checked_mul_u32(margin, 2)
        cs == checked_mul_u32(cells, size)
        a1 == IF IsSome(m2) /\ IsSome(cs) THEN checked_add_u32(m2.val, cs.val) ELSE None
        gaps == checked_mul_u32(IF cells >= 1 THEN cells - 1 ELSE 0, spacing)
    IN IF IsSome(a1) /\ IsSome(gaps) THEN checked_add_u32(a1.val, gaps.val) ELSE None

\* AssetManager::load_spritesheet_atlas: [m, ret, regions].
AtlasOut(m, ret, regions) == [m |-> m, ret |-> ret, regions |-> regions]

\* The part of load_spritesheet_atlas after sheet = self.load_image(&path_buf).
load_spritesheet_atlas_sheet(config, sheet) ==
    LET entry == sheet.m.images.by_id[sheet.ret.val].asset
        expected_width == expected_extent(config.margin, config.columns, config.sprite_width, config.spacing)
        expected_height == expected_extent(config.margin, config.rows, config.sprite_height, config.spacing)
        positions == calculate_sprite_positions(config)
    IN IF ~sheet.ret.ok THEN AtlasOut(sheet.m, sheet.ret, <<>>)
       ELSE IF ~IsSome(expected_width) \/ ~IsSome(expected_height)
            THEN AtlasOut(sheet.m, Err("InvalidSpritesheet"), <<>>)
       ELSE IF entry.width < expected_width.val \/ entry.height < expected_height.val
            THEN AtlasOut(sheet.m, Err("InvalidSpritesheet"), <<>>)
       ELSE AtlasOut(sheet.m, Ok(sheet.ret.val),
                     [k \in 1..Len(positions) |-> sprite_region(config, positions[k])])

\* load_spritesheet_atlas, with info = self.compute_path_info(path): the policy,
\* the zero check, then load_image on path_buf = info.io_path.
load_spritesheet_atlas_with_info(m, path, config, info) ==
    LET pol == enforce_path_policy(m, path, info)
    IN IF ~pol.ok THEN AtlasOut(m, pol, <<>>)
       ELSE IF config.columns = 0 \/ config.rows = 0 \/ config.sprite_width = 0 \/ config.sprite_height = 0
            THEN AtlasOut(m, Err("InvalidSpritesheet"), <<>>)
       ELSE load_spritesheet_atlas_sheet(config, load_image(m, path_string(info.io_path)))

load_spritesheet_atlas(m, path, config) ==
    load_spritesheet_atlas_with_info(m, path, config, compute_path_info(m, path))

\* SpritesheetAtlas::as_image_vec: one load_image_from_asset per region, in
\* order; the first error is returned as it is.
RECURSIVE as_image_vec_loop(_, _, _, _, _)
as_image_vec_loop(m, sheet, regions, k, out) ==
    IF k > Len(regions) THEN Out(m, OkIds(0, out))
    ELSE LET region == regions[k]
             made == load_image_from_asset(m, ImageAsset(region.width, region.height))
         IN IF region.x + region.width > sheet.width \/ region.y + region.height > sheet.height
            THEN Out(m, Err("InvalidSpritesheet"))
            ELSE IF ~made.ret.ok THEN Out(made.m, made.ret)
            ELSE as_image_vec_loop(made.m, sheet, regions, k + 1, Append(out, made.ret.val))

as_image_vec(m, image, regions) ==
    IF image \notin DOMAIN m.images.by_id THEN Out(m, Err("InvalidSpritesheet"))
    ELSE as_image_vec_loop(m, m.images.by_id[image].asset, regions, 1, <<>>)

\* load_spritesheet, once atlas = self.load_spritesheet_atlas(path, config)? is bound.
load_spritesheet_sprites(atlas) ==
    IF ~atlas.ret.ok THEN Out(atlas.m, atlas.ret)
    ELSE as_image_vec(atlas.m, atlas.ret.val, atlas.regions)

\* AssetManager::load_spritesheet
load_spritesheet(m, path, config) == load_spritesheet_sprites(load_spritesheet_atlas(m, path, config))

----------------------------------------------------------------------------
(* Spec: one AssetManager over the files of FsGame, driven by its public     *)
(* operations; the audio engine can also be called directly by its owner.    *)

\* Handles (ImageId, AssetId, SoundId values) the counters may hand out in all.
MaxHandles == 3

\* A limit that two small images exceed.
SmallLimit == 8

\* with_limit(SmallLimit), a limit that holds one atlas and SmallLimit bytes,
\* and new() (usize::MAX).
MemoryLimits == {SmallLimit, ATLAS_SIZE * ATLAS_SIZE * 4 + SmallLimit, UsizeMax}

\* f32::NAN, 16.0 and 2000.0 (no glyph of that size fits the atlas).
FontSizes ==
    {[finite |-> FALSE, px |-> 0], [finite |-> TRUE, px |-> 16], [finite |-> TRUE, px |-> 2000]}

Charsets == {CharsetAscii, CharsetCustom(<<97>>), CharsetCustom(<<97, 32, 63>>)}

Strategies == {"Auto", "Buffered", "Streaming"}

Policies == {"AllowAndWarn", "Deny", "AllowSilent"}

SheetConfigs ==
    {SpritesheetConfig(1, 1, 1, 1, "LeftToRightTopToBottom", 0, 0),
     SpritesheetConfig(2, 1, 1, 1, "RightToLeftTopToBottom", 0, 0),
     SpritesheetConfig(0, 1, 1, 1, "Zigzag", 0, 0)}

NoPend == [kind |-> "", id |-> 0, before |-> 0, count |-> 0, stage |-> "", clean |-> TRUE]

MgrInit ==
    /\ \E limit \in MemoryLimits : mgr = with_limit_and_root(limit)
    /\ audio = AudioSystem_new
    /\ pend = NoPend

\* The counters stay within the handles the model provides.
WithinIds(m, au) == m.next_image_id + m.next_asset_id + au.next_sound_id <= MaxHandles

\* pend after a call op(id) that left the manager as m1 and returned ret:
\* a load that created an entry is recorded with memory_usage() and
\* image_count() as they were before it; the unload of that entry is recorded
\* next; any other load that changes the manager ends the record, and any
\* other change (an unload of another entry, a bulk unload) leaves it not clean.
PendAfter(m1, op, kind, id, ret) ==
    IF op = "load" /\ ret.ok /\ m1 # mgr
    THEN [kind |-> kind, id |-> ret.val, before |-> memory_usage(mgr),
          count |-> image_count(mgr), stage |-> "loaded", clean |-> TRUE]
    ELSE IF m1 = mgr THEN pend
    ELSE IF op \in {"load", "generate"} \/ pend.stage # "loaded" THEN NoPend
    ELSE IF op = "unload" /\ pend.kind = kind /\ pend.id = id
    THEN [pend EXCEPT !.stage = "unloaded"]
    ELSE [pend EXCEPT !.clean = FALSE]

Commit(m1, au1, p) ==
    /\ WithinIds(m1, au1)
    /\ mgr' = m1
    /\ audio' = au1
    /\ pend' = p

\* The outcome r = [m, ret] of the manager call op(id) on an asset of the
\* given kind becomes the state.
CommitOut(r, op, kind, id) == Commit(r.m, audio, PendAfter(r.m, op, kind, id, r.ret))

\* The same for a call r = [m, au, ret] that also reaches the audio engine.
CommitSOut(r, op, kind, id) == Commit(r.m, r.au, PendAfter(r.m, op, kind, id, r.ret))

LoadImage(path) ==
    /\ CommitOut(load_image(mgr, path), "load", "image", 0)
    /\ UNCHANGED <<pathVars, storeVars, idVars, packVars, sliceVars>>

LoadImageFromAsset ==
    /\ CommitOut(load_image_from_asset(mgr, ImageAsset(1, 1)), "generate", "", 0)
    /\ UNCHANGED <<pathVars, storeVars, idVars, packVars, sliceVars>>

LoadFont(path, font_size, charset) ==
    /\ CommitOut(load_font_with_charset(mgr, path, font_size, charset), "load", "font", 0)
    /\ UNCHANGED <<pathVars, storeVars, idVars, packVars, sliceVars>>

LoadSound(path, strategy) ==
    /\ CommitSOut(load_sound_with_strategy(mgr, audio, path, strategy), "load", "sound", 0)
    /\ UNCHANGED <<pathVars, storeVars, idVars, packVars, sliceVars>>

LoadSpritesheetAtlas(path, config) ==
    /\ CommitOut(load_spritesheet_atlas(mgr, path, config), "generate", "", 0)
    /\ UNCHANGED <<pathVars, storeVars, idVars, packVars, sliceVars>>

LoadSpritesheet(path, config) ==
    /\ CommitOut(load_spritesheet(mgr, path, config), "generate", "", 0)
    /\ UNCHANGED <<pathVars, storeVars, idVars, packVars, sliceVars>>

UnloadImage(id) ==
    /\ CommitOut(unload_image(mgr, id), "unload", "image", id)
    /\ UNCHANGED <<pathVars, storeVars, idVars, packVars, sliceVars>>

UnloadFont(id) ==
    /\ CommitOut(unload_font(mgr, id), "unload", "font", id)
    /\ UNCHANGED <<pathVars, storeVars, idVars, packVars, sliceVars>>

UnloadSound(id) ==
    /\ CommitSOut(unload_sound(mgr, audio, id), "unload", "sound", id)
    /\ UNCHANGED <<pathVars, storeVars, idVars, packVars, sliceVars>>

UnloadAllImages ==
    /\ CommitOut(Out(unload_all_images(mgr), Ok(0)), "", "", 0)
    /\ UNCHANGED <<pathVars, storeVars, idVars, packVars, sliceVars>>

UnloadAllFonts ==
    /\ CommitOut(Out(unload_all_fonts(mgr), Ok(0)), "", "", 0)
    /\ UNCHANGED <<pathVars, storeVars, idVars, packVars, sliceVars>>

UnloadAllSounds ==
    /\ CommitSOut(unload_all_sounds(mgr, audio), "", "", 0)
    /\ UNCHANGED <<pathVars, storeVars, idVars, packVars, sliceVars>>

UnloadAll ==
    /\ CommitSOut(unload_all(mgr, audio), "", "", 0)
    /\ UNCHANGED <<pathVars, storeVars, idVars, packVars, sliceVars>>

\* AssetManager::set_asset_path_policy
SetAssetPathPolicy(policy) ==
    /\ Commit([mgr EXCEPT !.path_policy = policy], audio, pend)
    /\ UNCHANGED <<pathVars, storeVars, idVars, packVars, sliceVars>>

\* AudioSystem::unload called by the engine's owner, not through the manager.
AudioUnload(id) ==
    /\ Commit(mgr, audio_unload(audio, id).au, pend)
    /\ UNCHANGED <<pathVars, storeVars, idVars, packVars, sliceVars>>

\* AudioSystem::unload_all called by the engine's owner.
AudioUnloadAll ==
    /\ Commit(mgr, audio_unload_all(audio), pend)
    /\ UNCHANGED <<pathVars, storeVars, idVars, packVars, sliceVars>>

ImageIds == 0..(MaxHandles - 1)

AssetIds == 0..(MaxHandles - 1)

SoundIds == 0..(MaxHandles - 1)

Next ==
    \/ \E path \in ManagerPaths : LoadImage(path)
    \/ LoadImageFromAsset
    \/ \E path \in ManagerPaths, font_size \in FontSizes, charset \in Charsets :
          LoadFont(path, font_size, charset)
    \/ \E path \in ManagerPaths, strategy \in Strategies : LoadSound(path, strategy)
    \/ \E path \in ManagerPaths, config \in SheetConfigs : LoadSpritesheetAtlas(path, config)
    \/ \E path \in ManagerPaths, config \in SheetConfigs : LoadSpritesheet(path, config)
    \/ \E id \in ImageIds : UnloadImage(id)
    \/ \E id \in AssetIds : UnloadFont(id)
    \/ \E id \in SoundIds : UnloadSound(id)
    \/ UnloadAllImages
    \/ UnloadAllFonts
    \/ UnloadAllSounds
    \/ UnloadAll
    \/ \E policy \in Policies : SetAssetPathPolicy(policy)
    \/ \E id \in SoundIds : AudioUnload(id)
    \/ AudioUnloadAll

----------------------------------------------------------------------------
(* Handle counters: core/assets/id.rs, core/assets/image.rs, audio/sound.rs, *)
(* core/id.rs.  Every handle type draws its raw value from one atomic        *)
(* counter with fetch_add(1, _); the counter is an AtomicUsize or AtomicU32  *)
(* and wraps on overflow.  The harness runs concurrent callers against one   *)
(* counter of IdBits bits.                                                   *)

IdBits == 2

IdThreads == 2

MaxAllocs == 5

IdModulus == 2 ^ IdBits

Callers == 1 .. IdThreads

\* Mutant: a counter that hands out its value without advancing.
fetch_add_stuck(counter) == [raw |-> counter, next |-> counter]

\* AtomicUsize::fetch_add(1, _): one indivisible read-modify-write that
\* returns the previous value and wraps around on overflow.
fetch_add(counter) == [raw |-> counter, next |-> (counter + 1) % IdModulus]

\* The raw values of the handles whose new() / alloc() has returned.
ReturnedRaw == {idIssued[i].raw : i \in {j \in DOMAIN idIssued : idIssued[j].done}}

\* A caller enters AssetId::new / ImageId::new / SoundId::new / Id::new /
\* IdAllocator::alloc.
IdCall(t) ==
    /\ idPc[t] = "idle"
    /\ Len(idIssued) + Cardinality({u \in Callers : idPc[u] = "called"}) < MaxAllocs
    /\ idPc' = [idPc EXCEPT ![t] = "called"]
    /\ idSeen' = [idSeen EXCEPT ![t] = ReturnedRaw]
    /\ UNCHANGED <<idNext, idGot, idIssued>>
    /\ UNCHANGED <<pathVars, storeVars, mgrVars, packVars, sliceVars>>

\* let id = COUNTER.fetch_add(1, Ordering::Relaxed | Ordering::SeqCst);
IdFetchAdd(t) ==
    /\ idPc[t] = "called"
    /\ idNext' = fetch_add(idNext).next
    /\ idGot' = [idGot EXCEPT ![t] = fetch_add(idNext).raw]
    /\ idIssued' = Append(idIssued, [raw |-> fetch_add(idNext).raw, by |-> t, done |-> FALSE])
    /\ idPc' = [idPc EXCEPT ![t] = "fetched"]
    /\ UNCHANGED idSeen
    /\ UNCHANGED <<pathVars, storeVars, mgrVars, packVars, sliceVars>>

\* The handle wrapping the raw value is returned to the caller.
IdReturn(t) ==
    /\ idPc[t] = "fetched"
    /\ idIssued' = [i \in DOMAIN idIssued |->
                        IF idIssued[i].by = t /\ ~idIssued[i].done
                        THEN [idIssued[i] EXCEPT !.done = TRUE] ELSE idIssued[i]]
    /\ idPc' = [idPc EXCEPT ![t] = "idle"]
    /\ UNCHANGED <<idNext, idGot, idSeen>>
    /\ UNCHANGED <<pathVars, storeVars, mgrVars, packVars, sliceVars>>

IdInit ==
    /\ idNext = 0
    /\ idPc = [t \in Callers |-> "idle"]
    /\ idGot = [t \in Callers |-> 0]
    /\ idSeen = [t \in Callers |-> {}]
    /\ idIssued = <<>>

IdNext ==
    \/ \E t \in Callers : IdCall(t)
    \/ \E t \in Callers : IdFetchAdd(t)
    \/ \E t \in Callers : IdReturn(t)

----------------------------------------------------------------------------
(* The packing loop on its own: fontdue may return any bitmap size for a     *)
(* glyph, so the harness feeds the loop glyph after glyph with metrics drawn *)
(* from extents around the atlas size.                                       *)

MaxGlyphs == 3

GlyphWidths == {1, 512, ATLAS_SIZE - 1, ATLAS_SIZE, ATLAS_SIZE + 1}

GlyphHeights == {1, 512, ATLAS_SIZE - 1}

GlyphAdvances == {300, ATLAS_SIZE + 6}

GlyphMetrics ==
    [width : GlyphWidths, height : GlyphHeights, advance_width : {1}]
        \cup [width : {0}, height : {0}, advance_width : GlyphAdvances]

\* for ch in chars { let (metrics, bitmap) = font.rasterize(ch, font_size); ... }
\* One more character ch of the charset is rasterized and packed; the loop
\* ends at the OutOfMemory return.
PackNextGlyph(metrics) ==
    /\ pen.ok
    /\ Len(penFed) < MaxGlyphs
    /\ pen' = pack_metrics(pen, Len(penFed) + 1, metrics)
    /\ penFed' = Append(penFed, metrics)
    /\ UNCHANGED <<pathVars, storeVars, mgrVars, idVars, sliceVars>>

PackInit ==
    /\ pen = PenStart
    /\ penFed = <<>>

PackStep == \E metrics \in GlyphMetrics : PackNextGlyph(metrics)

----------------------------------------------------------------------------
(* The slicer on its own: any grid up to MaxGrid x MaxGrid, each traversal   *)
(* order, spacings and margins up to the top of u32, against a small and a   *)
(* large sheet.  The sheet is an image already in the manager, as it is      *)
(* after self.load_image(&path_buf).                                         *)

MaxGrid == 3

SliceConfigs ==
    {SpritesheetConfig(columns, rows, sprite_width, sprite_height, order, spacing, margin) :
        columns \in 1..MaxGrid, rows \in 1..MaxGrid,
        sprite_width \in {1, 2}, sprite_height \in {1, 2}, order \in SpriteOrders,
        spacing \in {0, 1, U32Max}, margin \in {0, 1, U32Max \div 2 + 1}}

SliceSheets == [width : {MaxGrid, 4 * MaxGrid}, height : {MaxGrid, 4 * MaxGrid}]

\* Not called yet.
NotCalled == [called |-> FALSE]

\* The manager and handle after the sheet image was loaded.
SheetLoaded(sheet) ==
    load_image_from_asset(with_limit_and_root(UsizeMax), ImageAsset(sheet.width, sheet.height))

\* let positions = calculate_sprite_positions(&config);
CalculatePositions ==
    /\ slPositions = NotCalled
    /\ slPositions' = [called |-> TRUE, positions |-> calculate_sprite_positions(slConfig)]
    /\ UNCHANGED <<slConfig, slSheet, slAtlas>>
    /\ UNCHANGED <<pathVars, storeVars, mgrVars, idVars, packVars>>

\* load_spritesheet_atlas from the loaded sheet on: the expected extents, the
\* size check, the regions.
SliceSheet ==
    /\ slAtlas = NotCalled
    /\ slAtlas' = [called |-> TRUE,
                   out |-> load_spritesheet_atlas_sheet(slConfig, SheetLoaded(slSheet))]
    /\ UNCHANGED <<slConfig, slSheet, slPositions>>
    /\ UNCHANGED <<pathVars, storeVars, mgrVars, idVars, packVars>>

SliceInit ==
    /\ slConfig \in SliceConfigs
    /\ slSheet \in SliceSheets
    /\ slPositions = NotCalled
    /\ slAtlas = NotCalled

SliceNext == CalculatePositions \/ SliceSheet

----------------------------------------------------------------------------
(* The specifications.  Each leaves the other components idle. *)

PathIdle == pRoot = <<>> /\ pInput = <<>> /\ pFs = FsBare /\ pInfo = compute_asset_path_info(FsBare, <<>>, <<>>)

StoreIdle == store = AssetStore_new /\ sLast = [op |-> "new", id |-> 0]

MgrIdle == mgr = with_limit_and_root(0) /\ audio = AudioSystem_new /\ pend = NoPend

IdIdle == IdInit

PackIdle == PackInit

SliceIdle ==
    /\ slConfig = SpritesheetConfig(1, 1, 1, 1, "LeftToRightTopToBottom", 0, 0)
    /\ slSheet = [width |-> 1, height |-> 1]
    /\ slPositions = NotCalled
    /\ slAtlas = NotCalled

Init == MgrInit /\ PathIdle /\ StoreIdle /\ IdIdle /\ PackIdle /\ SliceIdle

Spec == Init /\ [][Next]_vars

PathSpecInit == PathInit /\ StoreIdle /\ MgrIdle /\ IdIdle /\ PackIdle /\ SliceIdle

SpecPath == PathSpecInit /\ [][PathNext]_vars

StoreSpecInit == StoreInit /\ PathIdle /\ MgrIdle /\ IdIdle /\ PackIdle /\ SliceIdle

SpecStore == StoreSpecInit /\ [][StoreNext]_vars

IdSpecInit == IdInit /\ PathIdle /\ StoreIdle /\ MgrIdle /\ PackIdle /\ SliceIdle

SpecIds == IdSpecInit /\ [][IdNext]_vars

PackSpecInit == PackInit /\ PathIdle /\ StoreIdle /\ MgrIdle /\ IdIdle /\ SliceIdle

SpecPack == PackSpecInit /\ [][PackStep]_vars

SliceSpecInit == SliceInit /\ PathIdle /\ StoreIdle /\ MgrIdle /\ IdIdle /\ PackIdle

SpecSlice == SliceSpecInit /\ [][SliceNext]_vars

----------------------------------------------------------------------------
(* Claims about AssetStore, under SpecStore. *)

\* C8 (as stated): after any sequence of insert_keyed, insert_unkeyed, remove
\* and clear calls with arbitrary handles and keys, every key of id_by_key maps
\* to a handle present in by_id, and right after remove(h) no key maps to h.
C8_KeysPointToEntries ==
    /\ \A k \in DOMAIN store.id_by_key : store.id_by_key[k] \in DOMAIN store.by_id
    /\ sLast.op = "remove" => \A k \in DOMAIN store.id_by_key : store.id_by_key[k] # sLast.id

----------------------------------------------------------------------------
(* Claims about compute_asset_path_info, under SpecPath. *)

\* The segments of a key: its tokens other than the separator.
KeySegments(key) == {key[i] : i \in {j \in 1..Len(key) : key[j] # "/"}}

\* C9 (as stated): for every asset root and every input path the cache key
\* holds no ".." segment.
C9_KeyHasNoParentDir == ".." \notin KeySegments(pInfo.key)

\* Where a path leads from directory cur on a filesystem without symbolic
\* links: "." stays, ".." goes to the parent and stays at "/".
RECURSIVE Location(_, _, _)
Location(cur, p, i) ==
    IF i > Len(p) THEN cur
    ELSE IF p[i] = RootDir THEN Location(<<RootDir>>, p, i + 1)
    ELSE IF p[i] = CurDir THEN Location(cur, p, i + 1)
    ELSE IF p[i] = ParentDir THEN Location(IF Len(cur) > 1 THEN Front(cur) ELSE cur, p, i + 1)
    ELSE Location(Append(cur, p[i]), p, i + 1)

\* The input of the call, relative or not, and whether the place it resolves
\* to (joined to the root when relative) lies under the root's place.
InputIsRelative == ~is_absolute(components(normalize_separators(pInput)))

RootLocation == Location(pFs.cwd, components(normalize_separators(pRoot)), 1)

ResolvedUnderRoot ==
    IsPrefix(RootLocation, Location(RootLocation, components(normalize_separators(pInput)), 1))

\* C10 (as stated): is_portable holds, with no reason, exactly when the input
\* is relative and resolves under asset_root; whenever is_portable is false a
\* non-empty reason is given.
C10_PortableIffRelativeUnderRoot ==
    /\ pInfo.is_portable <=> (InputIsRelative /\ ResolvedUnderRoot)
    /\ pInfo.is_portable => ~IsSome(pInfo.reason)
    /\ ~pInfo.is_portable => (IsSome(pInfo.reason) /\ pInfo.reason.val # "")

----------------------------------------------------------------------------
(* Claims about the asset manager, under Spec. *)

\* The image entries load_image created: those that carry a cache key.
KeyedImages == {h \in DOMAIN mgr.images.by_id : IsSome(mgr.images.by_id[h].key)}

\* q resolves to the cache key of the image entry h.
SameKey(q, h) == mgr.images.by_id[h].key.val = [path |-> compute_path_info(mgr, q).key]

\* The path policy rejects q.
Denied(q) == mgr.path_policy = "Deny" /\ ~compute_path_info(mgr, q).is_portable

\* C1 (amended): while the handle h that load_image(p) returned is loaded,
\* load_image(q) of a path q with the same cache key returns h, unless the
\* path policy is Deny and q is not portable, in which case it returns the
\* policy's error; image_count() does not increase either way.
C1_DedupUnlessDenied ==
    \A h \in KeyedImages : \A q \in ManagerPaths :
        SameKey(q, h) =>
            /\ image_count(load_image(mgr, q).m) = image_count(mgr)
            /\ IF Denied(q) THEN IsErr(load_image(mgr, q).ret, "InvalidAssetPath")
               ELSE load_image(mgr, q).ret = Ok(h)

\* C1 (as stated): load_image(q) of a path q with the same cache key returns h.
C1_DedupAlways ==
    \A h \in KeyedImages : \A q \in ManagerPaths :
        SameKey(q, h) =>
            /\ image_count(load_image(mgr, q).m) = image_count(mgr)
            /\ load_image(mgr, q).ret = Ok(h)

\* /g/a is loaded, and its other spellings return its handle.
C1_Witness ==
    \E h \in KeyedImages :
        /\ SameKey(<<"a">>, h)
        /\ load_image(mgr, <<".", "\\", "a">>).ret = Ok(h)
        /\ load_image(mgr, <<"/", "g", "/", "a">>).ret = Ok(h)

\* C2 (as stated): after any sequence of completed operations
\* memory_usage() <= memory_limit().
C2_WithinBudget == memory_usage(mgr) <= memory_limit(mgr)

\* load_image(path) passes the policy, misses the cache and decodes an image
\* whose bytes do not fit next to the bytes in use.
OverBudget(path) ==
    /\ ~Denied(path)
    /\ ~IsSome(get_existing_id(mgr.images, [path |-> compute_path_info(mgr, path).key]))
    /\ IsSome(image_open(compute_path_info(mgr, path).io_path))
    /\ memory_usage(mgr)
         + image_open(compute_path_info(mgr, path).io_path).val.width
             * image_open(compute_path_info(mgr, path).io_path).val.height * 4
       > memory_limit(mgr)

\* The outcome r of a call left memory_usage() and the image store as they are.
ImagesUntouched(r) == memory_usage(r.m) = memory_usage(mgr) /\ r.m.images = mgr.images

\* C3: a load_image whose decoded size does not fit returns MemoryExceeded, and
\* a load_image that returns MemoryExceeded leaves memory_usage(), the image
\* entries and the key map as they were.
C3_AtomicAdmission ==
    \A path \in ManagerPaths :
        /\ OverBudget(path) => IsErr(load_image(mgr, path).ret, "MemoryExceeded")
        /\ IsErr(load_image(mgr, path).ret, "MemoryExceeded") => ImagesUntouched(load_image(mgr, path))

\* An image is loaded and another one does not fit.
C3_Witness == image_count(mgr) > 0 /\ \E path \in ManagerPaths : OverBudget(path)

\* The outcome r of a font load, when an error, changed nothing.
FontErrorUntouched(r) ==
    ~r.ret.ok => (r.m.fonts = mgr.fonts /\ r.m.images = mgr.images
                  /\ memory_usage(r.m) = memory_usage(mgr))

\* C4: a load_font_with_charset that returns an error leaves the font store,
\* the image store and memory_usage() as they were.
C4_FontLoadAllOrNothing ==
    \A path \in ManagerPaths, font_size \in FontSizes, charset \in Charsets :
        FontErrorUntouched(load_font_with_charset(mgr, path, font_size, charset))

\* The kinds of error load_font_with_charset returns in the current state.
FontErrors ==
    {load_font_with_charset(mgr, path, font_size, charset).ret.err.kind :
        path \in ManagerPaths, font_size \in FontSizes, charset \in Charsets}

\* A font is loaded, the policy is Deny, and further loads fail at every step.
C4_Witness ==
    /\ font_count(mgr) > 0
    /\ {"InvalidFontSize", "InvalidAssetPath", "Io", "InvalidFont", "OutOfMemory",
        "MemoryExceeded"} \subseteq FontErrors

\* C5: memory_usage() is the sum of the bytes of the entries in the three stores.
C5_LedgerMatchesStores ==
    memory_usage(mgr) = images_memory_usage_bytes(mgr) + fonts_memory_usage_bytes(mgr)
                          + sounds_memory_usage_bytes(mgr)

\* An image, a font and a sound are loaded.
C5_Witness == image_count(mgr) > 0 /\ font_count(mgr) > 0 /\ sound_count(mgr) > 0

\* C6 (amended): when load_image or load_sound created entry h and
\* unload_image(h) or unload_sound(h) followed, with no other load and no
\* other unload in between, memory_usage() is what it was before the load.
C6_UnloadRestoresMemory ==
    (pend.stage = "unloaded" /\ pend.clean /\ pend.kind \in {"image", "sound"}) =>
        memory_usage(mgr) = pend.before

\* C6 (as stated): the same with no other load in between, other unloads allowed.
C6_UnloadRestoresAfterUnloads ==
    (pend.stage = "unloaded" /\ pend.kind \in {"image", "sound"}) =>
        memory_usage(mgr) = pend.before

\* An image was loaded next to other assets and unloaded again.
C6_Witness ==
    pend.stage = "unloaded" /\ pend.clean /\ pend.kind = "image" /\ pend.before > 0

\* C7 (as stated): when load_font_with_charset created font h and
\* unload_font(h) followed with no other load (and no other unload) in
\* between, memory_usage() and image_count() are what they were before the load.
C7_FontUnloadRestores ==
    (pend.stage = "unloaded" /\ pend.clean /\ pend.kind = "font") =>
        (memory_usage(mgr) = pend.before /\ image_count(mgr) = pend.count)

\* The path of ManagerPaths that leaves the asset root: ../x.
EscapingPath == <<"..", "/", "x">>

\* C11: enforce_path_policy returns Ok for a portable path under every policy;
\* for a path that is not portable it returns Ok under AllowSilent and
\* AllowAndWarn, and under Deny the InvalidAssetPath error with the caller's
\* input, the asset root and the reason of the path info.  So under Deny
\* load_image of the escaping path fails with that error, and under
\* AllowAndWarn the same load does not.
C11_PathPolicy ==
    /\ \A q \in ManagerPaths, policy \in Policies :
          LET m == [mgr EXCEPT !.path_policy = policy]
              info == compute_path_info(m, q)
              r == enforce_path_policy(m, q, info)
          IN IF info.is_portable \/ policy \in {"AllowSilent", "AllowAndWarn"}
             THEN r = Ok(0)
             ELSE /\ IsErr(r, "InvalidAssetPath")
                  /\ r.err.input = q
                  /\ r.err.asset_root = AssetRoot
                  /\ IsSome(info.reason) /\ r.err.reason = info.reason.val
    /\ mgr.path_policy = "Deny" => IsErr(load_image(mgr, EscapingPath).ret, "InvalidAssetPath")
    /\ mgr.path_policy = "AllowAndWarn" => ~IsErr(load_image(mgr, EscapingPath).ret, "InvalidAssetPath")

\* The image outside the root was loaded while the policy allowed it, and the
\* policy is Deny now.
C11_Witness ==
    /\ mgr.path_policy = "Deny"
    /\ [path |-> compute_path_info(mgr, EscapingPath).key] \in DOMAIN mgr.images.id_by_key
    /\ ~compute_path_info(mgr, EscapingPath).is_portable

----------------------------------------------------------------------------
(* C12: key normalization, under SpecPath. *)

\* The names left of path p after dropping "." and cancelling every `dir/..`
\* pair, or None when a ".." has no directory of p before it to cancel.
RECURSIVE CancelPairs(_, _, _)
CancelPairs(stack, p, i) ==
    IF i > Len(p) THEN Some(stack)
    ELSE IF p[i] = RootDir \/ p[i] = CurDir THEN CancelPairs(stack, p, i + 1)
    ELSE IF p[i] = ParentDir
        THEN (IF stack = <<>> THEN None ELSE CancelPairs(Front(stack), p, i + 1))
    ELSE CancelPairs(Append(stack, p[i]), p, i + 1)

InputNames == CancelPairs(<<>>, components(normalize_separators(pInput)), 1)

\* The input is a spelling of a location under the root: its ".." segments
\* only cancel directories of the input, and it is relative or the absolute
\* form of a path under the root.
SpellsLocationUnderRoot ==
    /\ IsSome(InputNames)
    /\ InputIsRelative \/ IsPrefix(RootLocation, <<RootDir>> \o InputNames.val)

\* That location relative to the root, slash-separated.
RelativeKey ==
    path_string(IF InputIsRelative THEN InputNames.val
                ELSE SubSeq(<<RootDir>> \o InputNames.val, Len(RootLocation) + 1,
                            Len(InputNames.val) + 1))

RootIsAbsolute == is_absolute(components(normalize_separators(pRoot)))

----------------------------------------------------------------------------
(* C13, C14: unloading, under Spec. *)

\* The orders in which every handle of S can be listed once.
LiveOrders(S) ==
    {q \in [1..Cardinality(S) -> S] : \A x \in S : \E i \in 1..Cardinality(S) : q[i] = x}

KnownIds == 0..MaxHandles

\* C14: unload_image and unload_font of a handle that is not in the store
\* return false, unload_sound of one returns Ok(false) and leaves the audio
\* engine alone, and the manager is unchanged; so a second unload of a
\* handle changes nothing and releases no bytes.
C14_UnknownUnloadIsNoOp ==
    /\ \A id \in KnownIds \ DOMAIN mgr.images.by_id :
          unload_image(mgr, id) = Out(mgr, OkBool(FALSE))
    /\ \A id \in KnownIds \ DOMAIN mgr.fonts.by_id :
          unload_font(mgr, id) = Out(mgr, OkBool(FALSE))
    /\ \A id \in KnownIds \ DOMAIN mgr.sounds.by_id :
          unload_sound(mgr, audio, id) = SOut(mgr, audio, OkBool(FALSE))
    /\ \A id \in DOMAIN mgr.images.by_id :
          unload_image(unload_image(mgr, id).m, id) = Out(unload_image(mgr, id).m, OkBool(FALSE))
    /\ \A id \in DOMAIN mgr.fonts.by_id :
          unload_font(unload_font(mgr, id).m, id) = Out(unload_font(mgr, id).m, OkBool(FALSE))
    /\ \A id \in DOMAIN mgr.sounds.by_id :
          unload_sound(unload_sound(mgr, audio, id).m, unload_sound(mgr, audio, id).au, id)
            = SOut(unload_sound(mgr, audio, id).m, unload_sound(mgr, audio, id).au, OkBool(FALSE))

\* An image was unloaded and is unknown now, while other assets hold bytes.
C14_Witness ==
    /\ pend.stage = "unloaded" /\ pend.kind = "image"
    /\ pend.id \notin DOMAIN mgr.images.by_id
    /\ memory_usage(mgr) > 0

----------------------------------------------------------------------------
(* Claims about the handle counters, under SpecIds. *)

\* The allocations made before the counter has gone all the way round.
FirstLap == 1 .. (IF Len(idIssued) < IdModulus THEN Len(idIssued) ELSE IdModulus)

\* C15: while the counter has not wrapped around, every allocation, under any
\* interleaving of the concurrent callers, returns a raw value that no earlier
\* allocation from the same counter returned, and an allocation that begins
\* after another one returned gets a strictly larger value; so a value once
\* handed out (whether its handle was unloaded or not) is not handed out again.
C15_HandlesAreUnique ==
    /\ \A i, j \in FirstLap : i < j => idIssued[i].raw < idIssued[j].raw
    /\ \A t \in Callers :
          (idPc[t] = "fetched" /\ Len(idIssued) <= IdModulus) =>
              \A v \in idSeen[t] : v < idGot[t]

\* Two callers are inside the allocation at once, both past their fetch_add, and
\* one of them began after an earlier handle was returned.
C15_Witness ==
    /\ \A t \in Callers : idPc[t] = "fetched"
    /\ \E t \in Callers : idSeen[t] # {}
    /\ Len(idIssued) <= IdModulus

----------------------------------------------------------------------------
(* Claims about the glyph packing loop, under SpecPack. *)

\* The glyph rectangle lies inside the ATLAS_SIZE x ATLAS_SIZE canvas.
InsideCanvas(r) == r.x + r.width <= ATLAS_SIZE /\ r.y + r.height <= ATLAS_SIZE

\* Two glyph rectangles share a pixel.
RectsOverlap(a, b) ==
    /\ a.x < b.x + b.width /\ b.x < a.x + a.width
    /\ a.y < b.y + b.height /\ b.y < a.y + a.height

\* Every pixel the copy loop writes for the glyph lands in the canvas and in
\* the glyph's own rectangle: the last index is inside atlas_pixels and the
\* right-most column of every row is written to that row.
WritesOwnRect(r) ==
    /\ dst_index(r, r.width - 1, r.height - 1) < ATLAS_SIZE * ATLAS_SIZE
    /\ dst_index(r, r.width - 1, 0) \div ATLAS_SIZE = r.y

\* C16: for any sequence of glyph bitmap sizes, as long as the packing loop has
\* not returned the atlas-exhaustion error, every non-empty glyph placed so far
\* lies entirely inside the canvas (so its UVs are within 0..1), no two glyph
\* rectangles overlap, and no glyph pixel is written outside its own rectangle
\* or outside the canvas.
C16_GlyphsStayInsideAtlas ==
    pen.ok =>
        /\ \A i \in DOMAIN pen.rects :
              InsideCanvas(pen.rects[i]) /\ WritesOwnRect(pen.rects[i])
        /\ \A i, j \in DOMAIN pen.rects :
              i < j => ~RectsOverlap(pen.rects[i], pen.rects[j])

----------------------------------------------------------------------------
(* Claims about the spritesheet slicer, under SpecSlice. *)

\* C17: for every configuration that passes validation against the sheet, in
\* every traversal order, each produced region lies inside the sheet
\* (x + width <= sheet_width, y + height <= sheet_height) and the regions of two
\* distinct cells do not overlap.
C17_RegionsInsideSheetAndDisjoint ==
    (slAtlas.called /\ slAtlas.out.ret.ok) =>
        LET regions == slAtlas.out.regions
        IN /\ \A k \in DOMAIN regions :
                 /\ regions[k].x + regions[k].width <= slSheet.width
                 /\ regions[k].y + regions[k].height <= slSheet.height
           /\ \A i, j \in DOMAIN regions :
                 i < j => ~RectsOverlap(regions[i], regions[j])

\* A full MaxGrid x MaxGrid zigzag grid with spacing and margin was sliced.
C17_Witness ==
    /\ slAtlas.called /\ slAtlas.out.ret.ok
    /\ Len(slAtlas.out.regions) = MaxGrid * MaxGrid
    /\ slConfig.order = "Zigzag" /\ slConfig.spacing = 1 /\ slConfig.margin = 1
    /\ slConfig.sprite_width = 2

\* The set of (col, row) pairs in a position list.
PositionSet(positions) == {positions[k] : k \in DOMAIN positions}

\* C18: for columns >= 1, rows >= 1 and each of the five orders,
\* calculate_sprite_positions returns exactly columns*rows pairs, every (col, row)
\* with col < columns and row < rows exactly once, and the set of pairs is the
\* same under all five orders.
C18_PositionsCoverGridOnce ==
    slPositions.called =>
        LET positions == slPositions.positions
        IN /\ Len(positions) = slConfig.columns * slConfig.rows
           /\ \A col \in 0..(slConfig.columns - 1), row \in 0..(slConfig.rows - 1) :
                 Cardinality({k \in DOMAIN positions : positions[k] = <<col, row>>}) = 1
           /\ \A order \in SpriteOrders :
                 PositionSet(calculate_sprite_positions([slConfig EXCEPT !.order = order]))
                     = PositionSet(positions)

\* A column-major traversal of a grid with several rows and columns was
\* computed, and its sequence differs from the row-major one.
C18_Witness ==
    /\ slPositions.called
    /\ slConfig.order = "TopToBottomLeftToRight"
    /\ slConfig.columns = MaxGrid /\ slConfig.rows = 2
    /\ slPositions.positions
          # calculate_sprite_positions([slConfig EXCEPT !.order = "LeftToRightTopToBottom"])

----------------------------------------------------------------------------
(* C19: slicer validation, under Spec.  The sheets are the images /g/b       *)
(* (2 x 1), /x (1 x 1, outside the root) and the missing /g/n.               *)

ValidationPaths == {<<"b">>, EscapingPath, <<"n">>}

ValidationConfigs ==
    {SpritesheetConfig(0, 1, 1, 1, "LeftToRightTopToBottom", 0, 0),
     SpritesheetConfig(1, 0, 1, 1, "Zigzag", 0, 0),
     SpritesheetConfig(1, 1, 0, 1, "LeftToRightTopToBottom", 0, 0),
     SpritesheetConfig(1, 1, 1, 0, "LeftToRightTopToBottom", 0, U32Max),
     SpritesheetConfig(1, 1, 1, 1, "LeftToRightTopToBottom", 0, U32Max),
     SpritesheetConfig(2, 1, 1, 1, "LeftToRightTopToBottom", U32Max, 0),
     SpritesheetConfig(1, 2, 1, 1, "TopToBottomLeftToRight", U32Max - 1, 0),
     SpritesheetConfig(2, 2, 1, 1, "Zigzag", 0, 0),
     SpritesheetConfig(3, 1, 1, 1, "RightToLeftTopToBottom", 0, 0),
     SpritesheetConfig(1, 1, 1, 1, "LeftToRightBottomToTop", U32Max, 0),
     SpritesheetConfig(1, 1, 2, 1, "LeftToRightTopToBottom", 0, 0),
     SpritesheetConfig(2, 1, 1, 1, "RightToLeftTopToBottom", 0, 0)}

HasZero(config) ==
    config.columns = 0 \/ config.rows = 0 \/ config.sprite_width = 0 \/ config.sprite_height = 0

\* 2*margin + cells*size + (cells-1)*spacing in unbounded integers.
ExactExtent(margin, cells, size, spacing) == 2 * margin + cells * size + (cells - 1) * spacing

ExactWidth(config) ==
    ExactExtent(config.margin, config.columns, config.sprite_width, config.spacing)

ExactHeight(config) ==
    ExactExtent(config.margin, config.rows, config.sprite_height, config.spacing)

ExtentOverflows(config) == ExactWidth(config) > U32Max \/ ExactHeight(config) > U32Max

ExceedsSheet(config, image) ==
    ExactWidth(config) > image.width \/ ExactHeight(config) > image.height

\* The three rejections of the claim, for a configuration and a sheet image.
Rejected(config, image) ==
    HasZero(config) \/ ExtentOverflows(config) \/ ExceedsSheet(config, image)

\* Ok is returned only for a configuration that none of the rejections applies
\* to, and then with columns*rows regions.
OkOnlyWhenValid(config, r) ==
    r.ret.ok =>
        /\ r.ret.val \in DOMAIN r.m.images.by_id
        /\ ~Rejected(config, r.m.images.by_id[r.ret.val].asset)
        /\ Len(r.regions) = config.columns * config.rows

\* The claim for one call, given the policy verdict pol on the path, the
\* outcome sheet of loading the sheet image and the outcome r of the call.
ValidatedAfterPolicyAndLoad(config, pol, sheet, r) ==
    /\ (pol.ok /\ HasZero(config)) => IsErr(r.ret, "InvalidSpritesheet")
    /\ (pol.ok /\ ~HasZero(config) /\ sheet.ret.ok) =>
          LET image == sheet.m.images.by_id[sheet.ret.val].asset
          IN IF Rejected(config, image) THEN IsErr(r.ret, "InvalidSpritesheet")
             ELSE r.ret.ok
    /\ OkOnlyWhenValid(config, r)

\* The claim for one call on a path whose image load_image itself loads
\* (outcome direct), given the outcome r of the call.
ValidatedWhenLoadable(config, direct, r) ==
    direct.ret.ok =>
        /\ Rejected(config, direct.m.images.by_id[direct.ret.val].asset)
              => IsErr(r.ret, "InvalidSpritesheet")
        /\ OkOnlyWhenValid(config, r)

CheckValidation(q, config, info) ==
    ValidatedAfterPolicyAndLoad(config, enforce_path_policy(mgr, q, info),
                                load_image(mgr, path_string(info.io_path)),
                                load_spritesheet_atlas_with_info(mgr, q, config, info))

CheckValidationWhenLoadable(q, config, info) ==
    ValidatedWhenLoadable(config, load_image_with_info(mgr, q, info),
                          load_spritesheet_atlas_with_info(mgr, q, config, info))

\* C19: for a sheet path that load_image accepts and loads,
\* load_spritesheet_atlas returns InvalidSpritesheet whenever one of columns,
\* rows, sprite_width, sprite_height is zero, whenever the expected width or
\* height (2*margin + cells*size + (cells-1)*spacing) overflows u32 and whenever
\* it exceeds the sheet; and it returns Ok, with exactly columns*rows regions,
\* only when none of these holds.
C19_ValidationOfLoadableSheets ==
    \A q \in ValidationPaths, config \in ValidationConfigs :
        CheckValidationWhenLoadable(q, config, compute_path_info(mgr, q))

\* The same with the sheet taken as load_spritesheet_atlas loads it, by
\* load_image on the resolved path: a path-policy rejection of the caller's path
\* comes before the zero check, and a failure of that load before the other two.
C19_ValidationOnceSheetLoaded ==
    \A q \in ValidationPaths, config \in ValidationConfigs :
        CheckValidation(q, config, compute_path_info(mgr, q))

----------------------------------------------------------------------------
(* C20: the admission check of the ledger, under Spec. *)

\* Sizes asked of the ledger: nothing, one byte, a small image, one atlas, and
\* sizes at the top of usize.
AdmissionSizes == {0, 1, SmallLimit, ATLAS_SIZE * ATLAS_SIZE * 4, UsizeMax - 1, UsizeMax}

\* C20: ensure_capacity_for(n) returns Ok exactly when current + n, as an
\* unbounded sum, is at most the limit; otherwise, also when the usize addition
\* would overflow, it returns MemoryExceeded with the current usage and the
\* limit of the manager it was called on.  It takes &self and returns only the
\* verdict, so the manager is the same after the call.
C20_AdmissionCheck ==
    \A n \in AdmissionSizes :
        LET r == ensure_capacity_for(mgr, n)
        IN IF mgr.current_memory_bytes + n <= mgr.max_memory_bytes
           THEN r = Ok(0)
           ELSE /\ IsErr(r, "MemoryExceeded")
                /\ r.err.current = mgr.current_memory_bytes
                /\ r.err.limit = mgr.max_memory_bytes

\* The ledger holds bytes under the unlimited budget, so asking for usize::MAX
\* more overflows the addition; one more byte is still admitted.
C20_Witness ==
    /\ mgr.current_memory_bytes > 0
    /\ mgr.max_memory_bytes = UsizeMax
    /\ mgr.current_memory_bytes + UsizeMax > UsizeMax
    /\ IsErr(ensure_capacity_for(mgr, UsizeMax), "MemoryExceeded")
    /\ ensure_capacity_for(mgr, 1) = Ok(0)

----------------------------------------------------------------------------
(* C21: the charset part of the font cache key, under Spec. *)

\* Pairs of Custom lists with the same characters once the space and '?' are
\* added and the list is sorted and deduplicated.
SameCharsetPairs ==
    {<<CharsetCustom(<<97>>), CharsetCustom(<<97, 32, 63>>)>>,
     <<CharsetCustom(<<97, 63>>), CharsetCustom(<<63, 97, 63>>)>>}

\* The same font path and size loaded with charset a and then with charset b:
\* the second load returns the handle of the first and adds no font.
SecondLoadIsHit(path, font_size, a, b) ==
    LET first == load_font_with_charset(mgr, path, font_size, a)
        second == load_font_with_charset(first.m, path, font_size, b)
    IN (first.ret.ok /\ second.ret.ok) =>
          /\ second.ret.val = first.ret.val
          /\ second.m = first.m

\* C21: two Custom charsets that normalize to the same character set (space and
\* '?' added, sorted, deduplicated) give the same font cache key: loading the
\* same path and size with one and then the other returns the same FontId and
\* rasterizes once; so do lists that differ only in order or duplicates.
C21_CharsetFingerprint ==
    \A pair \in SameCharsetPairs :
        /\ charset_chars(pair[1]) = charset_chars(pair[2])
        /\ SecondLoadIsHit(<<"f">>, [finite |-> TRUE, px |-> 16], pair[1], pair[2])

----------------------------------------------------------------------------
(* C22: the path policy comes before the dedup lookup, under Spec. *)

\* The caller's paths and the absolute forms of the font and the sound.
PolicyPaths == ManagerPaths \cup {<<"/", "g", "/", "f">>, <<"/", "g", "/", "s">>}

ValidFontSize == [finite |-> TRUE, px |-> 16]

\* Under Deny the three loads of the path q, whose path info is info and is not
\* portable, return the policy's error and leave the manager and the audio
\* engine as they were.
DeniedLoadsChangeNothing(q, info) ==
    (mgr.path_policy = "Deny" /\ ~info.is_portable) =>
        /\ load_image_with_info(mgr, q, info) = Out(mgr, enforce_path_policy(mgr, q, info))
        /\ IsErr(enforce_path_policy(mgr, q, info), "InvalidAssetPath")
        /\ \A charset \in Charsets :
              load_font_with_info(mgr, q, ValidFontSize, charset, info)
                  = Out(mgr, enforce_path_policy(mgr, q, info))
        /\ \A strategy \in Strategies :
              load_sound_with_info(mgr, audio, q, strategy, info)
                  = SOut(mgr, audio, Backend(enforce_path_policy(mgr, q, info)))

\* C22: with policy Deny, load_image, load_font_with_charset and load_sound of
\* an input that is not portable return the path-policy error (load_sound wraps
\* it as its backend error), also when an asset with the same key is cached, and
\* the call changes no state.
C22_PolicyBeforeDedup ==
    \A q \in PolicyPaths : DeniedLoadsChangeNothing(q, compute_path_info(mgr, q))

\* The policy is Deny while the font /g/f and the sound /g/s are cached, and
\* their absolute forms have the cached keys and are not portable.
C22_Witness ==
    /\ mgr.path_policy = "Deny"
    /\ \E k \in DOMAIN mgr.fonts.id_by_key : k.path = <<"f">>
    /\ \E k \in DOMAIN mgr.sounds.id_by_key : k.path = <<"s">>
    /\ ~compute_path_info(mgr, <<"/", "g", "/", "s">>).is_portable
    /\ ~compute_path_info(mgr, <<"/", "g", "/", "f">>).is_portable
    /\ compute_path_info(mgr, <<"/", "g", "/", "f">>).key = <<"f">>
    /\ compute_path_info(mgr, <<"/", "g", "/", "s">>).key = <<"s">>

----------------------------------------------------------------------------
(* C23: a dedup hit is a pure lookup, under Spec. *)

\* The three loads of path q with path info info, when the key is cached:
\* the cached handle is returned and the manager and the audio engine are as
\* they were.  excepted says when the policy's error is returned instead.
HitsArePureLookups(q, info, excepted) ==
    /\ [path |-> info.key] \in DOMAIN mgr.images.id_by_key =>
          IF excepted THEN ~load_image_with_info(mgr, q, info).ret.ok
          ELSE load_image_with_info(mgr, q, info)
                  = Out(mgr, Ok(mgr.images.id_by_key[[path |-> info.key]]))
    /\ \A charset \in Charsets, font_size \in FontSizes :
          LET key == FontKey_new(info.key, font_size, charset_hash(charset))
          IN key \in DOMAIN mgr.fonts.id_by_key =>
                IF excepted THEN ~load_font_with_info(mgr, q, font_size, charset, info).ret.ok
                ELSE load_font_with_info(mgr, q, font_size, charset, info)
                        = Out(mgr, Ok(mgr.fonts.id_by_key[key]))
    /\ \A strategy \in Strategies :
          LET key == [path |-> info.key, strategy |-> strategy]
          IN key \in DOMAIN mgr.sounds.id_by_key =>
                IF excepted THEN ~load_sound_with_info(mgr, audio, q, strategy, info).ret.ok
                ELSE load_sound_with_info(mgr, audio, q, strategy, info)
                        = SOut(mgr, audio, Ok(mgr.sounds.id_by_key[key]))

\* C23 (amended): when the key of a load_image / load_font_with_charset /
\* load_sound call is already cached and the path policy admits the input, the
\* call returns the existing handle and leaves the stores, memory_usage() and
\* the audio engine unchanged, whatever the ledger holds (also at the limit);
\* when the policy is Deny and the input is not portable the call fails instead.
C23_HitIsPureLookupUnlessDenied ==
    \A q \in PolicyPaths :
        HitsArePureLookups(q, compute_path_info(mgr, q),
                           mgr.path_policy = "Deny" /\ ~compute_path_info(mgr, q).is_portable)

\* C23 (as stated): a load whose key is cached returns the existing handle and
\* changes nothing.
C23_HitIsPureLookup ==
    \A q \in PolicyPaths : HitsArePureLookups(q, compute_path_info(mgr, q), FALSE)

\* The image /g/b fills the budget exactly, and loading it again returns its
\* handle.
C23_Witness ==
    /\ memory_usage(mgr) = memory_limit(mgr)
    /\ [path |-> <<"b">>] \in DOMAIN mgr.images.id_by_key
    /\ load_image(mgr, <<"b">>).ret = Ok(mgr.images.id_by_key[[path |-> <<"b">>]])

----------------------------------------------------------------------------
(* C24, C25: failed spritesheet loads, under Spec. *)

\* The image store, its key map and the ledger of m1 are those of the manager.
ImagesAndLedgerAsBefore(m1) ==
    /\ m1.images = mgr.images
    /\ memory_usage(m1) = memory_usage(mgr)

\* A call that returned InvalidSpritesheet left the images and the ledger alone.
InvalidLeavesNoSheet(r) == IsErr(r.ret, "InvalidSpritesheet") => ImagesAndLedgerAsBefore(r.m)

\* C24: when load_spritesheet_atlas or load_spritesheet returns
\* InvalidSpritesheet (a zero dimension, an expected size that overflows or
\* exceeds the sheet), the image store, the key -> handle map and memory_usage()
\* equal their values before the call: the sheet image is not left loaded.
C24_InvalidSheetChangesNothing ==
    \A q \in ValidationPaths, config \in ValidationConfigs :
        /\ InvalidLeavesNoSheet(load_spritesheet_atlas(mgr, q, config))
        /\ InvalidLeavesNoSheet(load_spritesheet(mgr, q, config))

\* SpriteRegion { x, y, width, height, .. }
SpriteRegion(x, y, width, height) == [x |-> x, y |-> y, width |-> width, height |-> height]

\* Region lists of atlases a caller builds itself (the fields of
\* SpritesheetAtlas are public): a cell listed twice, the two cells of a 2 x 1
\* sheet, and a cell followed by a region outside every sheet.
BuiltRegions ==
    {<<SpriteRegion(0, 0, 1, 1), SpriteRegion(0, 0, 1, 1)>>,
     <<SpriteRegion(0, 0, 1, 1), SpriteRegion(1, 0, 1, 1)>>,
     <<SpriteRegion(0, 0, 1, 1), SpriteRegion(5, 0, 1, 1)>>}

\* A failed as_image_vec, started on manager m0 with outcome r, left no sprite
\* behind: the image store and the ledger are those of m0.
FailureLeavesNoSprite(m0, r) ==
    ~r.ret.ok => (r.m.images = m0.images /\ memory_usage(r.m) = memory_usage(m0))

SpritesOfSheet(atlas) ==
    atlas.ret.ok =>
        FailureLeavesNoSprite(atlas.m, as_image_vec(atlas.m, atlas.ret.val, atlas.regions))

\* C25: when load_spritesheet / SpritesheetAtlas::as_image_vec returns an error
\* part-way (the budget is exceeded on a later sprite, or a region is out of
\* bounds), no sprite image created earlier in the call remains in the image
\* store and memory_usage() is what it was before the sprites were made.
C25_SpritesAllOrNothing ==
    /\ \A q \in ValidationPaths, config \in ValidationConfigs :
          SpritesOfSheet(load_spritesheet_atlas(mgr, q, config))
    /\ \A image \in DOMAIN mgr.images.by_id, regions \in BuiltRegions :
          FailureLeavesNoSprite(mgr, as_image_vec(mgr, image, regions))

----------------------------------------------------------------------------
(* C26: the region arithmetic, under SpecSlice. *)

\* C26: for every configuration that passes validation, single-column and
\* single-row grids with any spacing included, computing each region's
\* x = margin + col*(sprite_width + spacing), y = margin + row*(sprite_height +
\* spacing), x + sprite_width, y + sprite_height and the position count
\* columns*rows never overflows u32.
C26_RegionArithmeticInRange ==
    (slAtlas.called /\ slAtlas.out.ret.ok) =>
        /\ slConfig.columns * slConfig.rows <= U32Max
        /\ \A k \in 1..(slConfig.columns * slConfig.rows) :
              ~region_overflows(slConfig, calculate_sprite_positions(slConfig)[k])

----------------------------------------------------------------------------
(* C27: failed and successful load_sound, under Spec. *)

\* The claim for one call load_sound(q, strategy) with path info info and
\* outcome r, where engine is what the audio engine's load of the resolved path
\* returns on the present engine.
SoundLoadLeavesNoOrphan(q, strategy, info, r, engine) ==
    LET key == [path |-> info.key, strategy |-> strategy]
        estimated_bytes == fs_metadata_len(info.io_path)
        admitted == enforce_path_policy(mgr, q, info).ok
        miss == key \notin DOMAIN mgr.sounds.id_by_key
    IN /\ (admitted /\ miss /\ ~ensure_capacity_for(mgr, estimated_bytes).ok) =>
             (~r.ret.ok /\ r.au = audio /\ r.m = mgr)
       /\ (admitted /\ miss /\ ensure_capacity_for(mgr, estimated_bytes).ok /\ ~engine.ret.ok) =>
             (r.ret = engine.ret /\ r.m = mgr)
       /\ ~r.ret.ok => r.m = mgr
       /\ (r.ret.ok /\ miss) =>
             /\ r.ret = engine.ret /\ r.au = engine.au
             /\ r.ret.val \in r.au.loaded
             /\ r.m.sounds.id_by_key = MapPut(mgr.sounds.id_by_key, key, r.ret.val)
             /\ DOMAIN r.m.sounds.by_id = DOMAIN mgr.sounds.by_id \cup {r.ret.val}
             /\ memory_usage(r.m) = memory_usage(mgr) + estimated_bytes

\* C27: if the budget check on the estimated size fails, the audio engine's
\* load is not invoked; if the engine's load fails, the sound store, the key ->
\* handle map and memory_usage() are unchanged; on success the handle stored and
\* returned is the one the engine returned and memory_usage() grows by the
\* estimated size.
C27_SoundLoadLeavesNoOrphan ==
    \A q \in ManagerPaths, strategy \in Strategies :
        SoundLoadLeavesNoOrphan(q, strategy, compute_path_info(mgr, q),
            load_sound_with_strategy(mgr, audio, q, strategy),
            audio_load_with_strategy(audio, compute_path_info(mgr, q).io_path, strategy))

\* The sound /g/s is loaded buffered; loading it streaming fails on the budget
\* with the engine untouched, and loading the missing /g/n fails in the engine.
C27_Witness ==
    /\ [path |-> <<"s">>, strategy |-> "Buffered"] \in DOMAIN mgr.sounds.id_by_key
    /\ mgr.sounds.id_by_key[[path |-> <<"s">>, strategy |-> "Buffered"]] \in audio.loaded
    /\ IsErr(load_sound_with_strategy(mgr, audio, <<"s">>, "Streaming").ret, "Backend")
    /\ load_sound_with_strategy(mgr, audio, <<"s">>, "Streaming").au = audio
    /\ IsErr(load_sound_with_strategy(mgr, audio, <<"n">>, "Buffered").ret, "FileOpen")

----------------------------------------------------------------------------
(* C28: lexical normalization and the escape signal, under SpecPath. *)

\* The normal form in which a `..` cancels only a real component before it: a
\* `..` with nothing real to cancel (an empty path, a root, a retained `..`) is
\* retained and never cancelled later.
RECURSIVE KeepEscapes(_, _, _)
KeepEscapes(kept, comps, i) ==
    IF i > Len(comps) THEN kept
    ELSE IF comps[i] = CurDir THEN KeepEscapes(kept, comps, i + 1)
    ELSE IF comps[i] = ParentDir
        THEN KeepEscapes(IF kept # <<>> /\ Last(kept) \notin {RootDir, ParentDir}
                         THEN Front(kept) ELSE Append(kept, ParentDir), comps, i + 1)
    ELSE IF comps[i] = RootDir THEN KeepEscapes(<<RootDir>>, comps, i + 1)
    ELSE KeepEscapes(Append(kept, comps[i]), comps, i + 1)

\* The number of `..` components p has after its root, before anything else.
RECURSIVE LeadingParents(_)
LeadingParents(p) ==
    IF p = <<>> THEN 0
    ELSE IF Head(p) = RootDir THEN LeadingParents(Tail(p))
    ELSE IF Head(p) = ParentDir THEN 1 + LeadingParents(Tail(p))
    ELSE 0

\* C28: in lexical_normalize a `..` cancels only a preceding real component and
\* a retained `..` is never cancelled by a later one, so the normalized input
\* keeps every unmatched leading `..` (`../../x` stays `../../x`).
C28_EscapesAreKept ==
    LET input == normalize_separators(pInput)
    IN /\ lexical_normalize(input) = KeepEscapes(<<>>, components(input), 1)
       /\ LeadingParents(lexical_normalize(input))
             = LeadingParents(KeepEscapes(<<>>, components(input), 1))

----------------------------------------------------------------------------
(* C29: the policy and the spritesheet's resolved path, under Spec. *)

\* The call's outcome is not the path policy's error.
NotRejectedByPolicy(r) == ~IsErr(r.ret, "InvalidAssetPath")

\* C29: with policy Deny, load_spritesheet_atlas and load_spritesheet of a
\* relative path that resolves under asset_root (a portable input) are never
\* rejected by the path policy: the resolved absolute I/O path is not checked
\* again as if the caller had passed it.
C29_PolicyOnCallersPathOnly ==
    mgr.path_policy = "Deny" =>
        \A q \in ValidationPaths, config \in ValidationConfigs :
            (compute_path_info(mgr, q).is_portable /\ ~is_absolute(components(q))) =>
                /\ NotRejectedByPolicy(load_spritesheet_atlas(mgr, q, config))
                /\ NotRejectedByPolicy(load_spritesheet(mgr, q, config))

----------------------------------------------------------------------------
(* C30: sound handles and the audio engine, under Spec, whose steps         *)
(* interleave the manager's calls with AudioSystem::unload / unload_all.     *)

\* C30: whatever calls of the manager and direct calls of the audio engine's
\* unload / unload_all came before, a handle returned by a successful load_sound
\* is loaded in the audio engine when it is returned; a dedup hit does not
\* return a handle the engine has dropped.
C30_ReturnedSoundIsLoaded ==
    \A q \in ManagerPaths, strategy \in Strategies :
        LET r == load_sound_with_strategy(mgr, audio, q, strategy)
        IN r.ret.ok => r.ret.val \in r.au.loaded


====
